---- MODULE Spec2Model ----
(***************************************************************************)
(* lolcommits-rs: the server-side ingestion path of src/server.rs          *)
(* (upload_handler, process_image_async, the revision cache, the SSE       *)
(* broadcast channel) over a model of the images directory, and the        *)
(* artifact naming/decoding of src/image_metadata.rs.                      *)
(*                                                                         *)
(* Strings are sequences of one-character strings, so that formatting a    *)
(* file name and splitting it again are computed, not assumed.             *)
(***************************************************************************)
EXTENDS Integers, Sequences, FiniteSets, TLC

(* ----------------------------- bounds ---------------------------------- *)

\* Seconds the wall clock can advance during a run (chrono::Local::now()).
MaxClock == 1

\* Times the server process is stopped and started again.
MaxCrashes == 1

\* Parts in one multipart body.
MaxFields == 2

\* Events a subscriber may be behind before no further upload is admitted
\* (only bounds the model; it exceeds ChannelCapacity so that lag happens).
MaxBehind == 102

\* Days the files of the listing are stamped with, files in a directory.
MaxDay == 3
MaxFiles == 3

\* Characters in a commit message.
MaxMsg == 7

\* format_stat_number is tried on every number up to MaxN (and on others).
MaxN == 1300

\* Camera devices in the client's configuration.
MaxDevices == 2

\* Rows of the tallest image the band of the chyron is drawn on.
MaxRows == 83

\* Calls of get_model_path by one task.
MaxAttempts == 2

\* fs::write hands the body to the file in so many pieces.
MaxChunks == 2

\* The largest image replace_background is tried on.
MaxWidth == 4
MaxHeight == 2
MaxPixels == 8

(* ------------------------- program constants --------------------------- *)

\* broadcast::channel(100)
ChannelCapacity == 100

\* StatusCode::ACCEPTED / StatusCode::BAD_REQUEST
Accepted == 202
BadRequest == 400

(* ------------------------------ universe ------------------------------- *)

\* Upload requests of a run, in order of arrival.
Uploads == {1, 2}

\* SSE clients.
Subs == {1}

\* Worker threads the async runtime may have been started with.
WorkerCounts == {1, 2}

\* Revisions (short SHAs) and the repository name clients send.
Rev1 == <<"a", "1">>
Rev2 == <<"b", "2">>
Revisions == {Rev1, Rev2}
RepoName == <<"l", "o", "l", "-", "r", "s">>

NoString == <<>>

(* ------------------------------ strings -------------------------------- *)

PngSuffix == <<".", "p", "n", "g">>

\* Index of the last occurrence of character c in s, 0 when there is none.
RECURSIVE LastIndexOf(_, _, _)
LastIndexOf(s, c, i) ==
    IF i = 0 THEN 0
    ELSE IF s[i] = c THEN i
    ELSE LastIndexOf(s, c, i - 1)

RFind(s, c) == LastIndexOf(s, c, Len(s))

\* str::strip_suffix: the string without the suffix, or no result.
EndsWith(s, suffix) ==
    /\ Len(s) >= Len(suffix)
    /\ SubSeq(s, Len(s) - Len(suffix) + 1, Len(s)) = suffix

StripSuffix(s, suffix) == SubSeq(s, 1, Len(s) - Len(suffix))

\* Path::extension: the part after the last '.', none when there is no '.'
\* or when the only '.' is the leading one (a dot file).
Extension(name) ==
    LET dot == RFind(name, ".")
    IN  IF dot <= 1 THEN NoString ELSE SubSeq(name, dot + 1, Len(name))

\* The split taken from the left, as str::splitn(3, '-') does.
RSplitN3_FromLeft(s) ==
    LET Find(t) == IF \E i \in DOMAIN t : t[i] = "-"
                   THEN CHOOSE i \in DOMAIN t : t[i] = "-" /\ \A j \in 1..(i - 1) : t[j] # "-"
                   ELSE 0
        i1 == Find(s)
    IN  IF i1 = 0 THEN << s >>
        ELSE LET first == SubSeq(s, 1, i1 - 1)
                 rest  == SubSeq(s, i1 + 1, Len(s))
                 i2    == Find(rest)
             IN  IF i2 = 0 THEN << first, rest >>
                 ELSE << first, SubSeq(rest, 1, i2 - 1), SubSeq(rest, i2 + 1, Len(rest)) >>

\* str::rsplitn(3, '-'): at most three pieces, split from the right.
RSplitN3(s) ==
    LET i1 == RFind(s, "-")
    IN  IF i1 = 0 THEN << s >>
        ELSE LET last == SubSeq(s, i1 + 1, Len(s))
                 rest == SubSeq(s, 1, i1 - 1)
                 i2   == RFind(rest, "-")
             IN  IF i2 = 0 THEN << last, rest >>
                 ELSE << last, SubSeq(rest, i2 + 1, Len(rest)), SubSeq(rest, 1, i2 - 1) >>

\* One decimal digit.
Digit(n) == CASE n = 0 -> "0" [] n = 1 -> "1" [] n = 2 -> "2" [] n = 3 -> "3"
              [] n = 4 -> "4" [] n = 5 -> "5" [] n = 6 -> "6" [] n = 7 -> "7"
              [] n = 8 -> "8" [] OTHER -> "9"

\* chrono::Local::now().format("%Y%m%d-%H%M%S") for the second t of the run:
\* the run starts at 2024-01-02 15:30:00.
FormatNow(t) ==
    <<"2", "0", "2", "4", "0", "1", "0", "2", "-", "1", "5", "3", "0",
      Digit(t \div 10), Digit(t % 10)>>


(* --------------------------- artifact files ---------------------------- *)

\* {repo}-{timestamp}-{revision}.png   (get_output_path)
FileName(repo_name, timestamp, commit_sha) ==
    repo_name \o <<"-">> \o timestamp \o <<"-">> \o commit_sha \o PngSuffix

\* A temporary file created with the suffix ".png".
TempName_PngSuffix(u) == <<".", "t", "m", "p", Digit(u)>> \o PngSuffix

\* The name tempfile::NamedTempFile::new_in gives the temporary file of
\* upload u: ".tmp" and a unique tail, no extension.
TempName(u) == <<".", "t", "m", "p", Digit(u)>>

\* CommitMetadata, as far as the ingestion path reads it.
NoMetadata == [some |-> FALSE, revision |-> NoString, repo_name |-> NoString]

SomeMetadata(revision, repo_name) ==
    [some |-> TRUE, revision |-> revision, repo_name |-> repo_name]

\* What a file holds: whether its image data is completely written, whether
\* it carries lolcommit text chunks, the chunk values, and the upload whose
\* image it is (0: a file that was there before the run).
FileContent(complete, chunks, revision, repo_name, by) ==
    [complete |-> complete, chunks |-> chunks, revision |-> revision,
     repo_name |-> repo_name, by |-> by]

EmptyFile(u) == FileContent(FALSE, FALSE, NoString, NoString, u)

\* save_png_with_metadata: every field as a text chunk, then the pixels.
save_png_with_metadata(u, metadata) ==
    FileContent(TRUE, TRUE, metadata.revision, metadata.repo_name, u)

\* read_png_metadata: Some(metadata) when any lolcommit chunk is found.
read_png_metadata(content) ==
    IF content.chunks
    THEN SomeMetadata(content.revision, content.repo_name)
    ELSE NoMetadata

\* parse_image_file: embedded metadata first, else the file name split from
\* the right into revision, time part and repository name.
parse_image_file(name, content) ==
    IF read_png_metadata(content).some
    THEN read_png_metadata(content)
    ELSE IF ~EndsWith(name, PngSuffix)
    THEN NoMetadata
    ELSE LET parts == RSplitN3(StripSuffix(name, PngSuffix))
         IN  IF Len(parts) # 3
             THEN NoMetadata
             ELSE SomeMetadata(parts[1], parts[3])

\* The files get_image_list reads: those with extension "png" that
\* parse_image_file does not turn down.
ListedNames(dir) ==
    {n \in DOMAIN dir : /\ Extension(n) = <<"p", "n", "g">>
                        /\ parse_image_file(n, dir[n]).some}

get_image_list(dir) == {parse_image_file(n, dir[n]) : n \in ListedNames(dir)}

\* initialize_revision_cache, when the scan succeeds.
initialize_revision_cache(dir) == {img.revision : img \in get_image_list(dir)}

\* Files that may be in the images directory before the first start: an
\* artifact of an older version without text chunks, and a foreign png.
LegacyStamp ==
    <<"2", "0", "2", "3", "1", "2", "3", "1", "-", "1", "2", "0", "0", "0", "0">>
LegacyName == FileName(RepoName, LegacyStamp, Rev1)
ForeignName == <<"x", ".", "p", "n", "g">>
OldFile == FileContent(TRUE, FALSE, NoString, NoString, 0)
InitialDirs ==
    {[n \in names |-> OldFile] : names \in SUBSET {LegacyName, ForeignName}}

\* The directory with file n written or replaced / removed.
WithFile(dir, n, content) ==
    [m \in DOMAIN dir \cup {n} |-> IF m = n THEN content ELSE dir[m]]
WithoutFile(dir, n) == [m \in DOMAIN dir \ {n} |-> dir[m]]

(* ---------------------------- upload bodies ---------------------------- *)

\* UploadMetadata (the JSON of the "metadata" part).
NoUpload ==
    [some |-> FALSE, revision |-> NoString, repo_name |-> NoString, force |-> FALSE]
UploadMetadatas ==
    [some : {TRUE}, revision : Revisions, repo_name : {RepoName}, force : BOOLEAN]

\* One multipart part: an image, a metadata part (parsed = NoUpload when its
\* text is not the metadata JSON), or a part under another name.
Fields ==
    {[kind |-> "image", parsed |-> NoUpload], [kind |-> "other", parsed |-> NoUpload]}
    \cup [kind : {"metadata"}, parsed : UploadMetadatas \cup {NoUpload}]

Bodies == UNION {[1..n -> Fields] : n \in 0..MaxFields}

\* The multipart loop of upload_handler: the last image part and the last
\* parseable metadata part win.
RECURSIVE ReadFields(_, _, _)
ReadFields(b, i, acc) ==
    IF i > Len(b) THEN acc
    ELSE ReadFields(b, i + 1,
            CASE b[i].kind = "image" -> [acc EXCEPT !.image_bytes = TRUE]
              [] b[i].kind = "metadata" /\ b[i].parsed.some ->
                    [acc EXCEPT !.metadata = b[i].parsed]
              [] OTHER -> acc)

\* The loop with the metadata part read only after an image part was seen.
ParseMultipart_ImageFirst(b) ==
    LET img == {i \in DOMAIN b : b[i].kind = "image"}
        first == IF img = {} THEN Len(b) + 1 ELSE CHOOSE i \in img : \A j \in img : i <= j
    IN  ReadFields(b, first, [image_bytes |-> FALSE, metadata |-> NoUpload])

\* The loop with an unparseable metadata part taken as default metadata.
ParseMultipart_DefaultsOnError(b) ==
    LET seen == ReadFields(b, 1, [image_bytes |-> FALSE, metadata |-> NoUpload])
    IN  IF \E i \in DOMAIN b : b[i].kind = "metadata"
        THEN [seen EXCEPT !.metadata.some = TRUE]
        ELSE seen

ParseMultipart(b) == ReadFields(b, 1, [image_bytes |-> FALSE, metadata |-> NoUpload])


(* -------------------------------- state -------------------------------- *)

VARIABLES
    running,    \* the server process is up (create_router has returned)
    workers,    \* worker threads of the async runtime
    scanOk,     \* initialize_revision_cache returned Ok at the last start
    crashes,    \* times the process has been stopped
    clock,      \* seconds since the start of the run
    fs,         \* the images directory: file name -> content
    cache,      \* AppState.revision_cache
    rwlock,     \* the RwLock around the cache: who holds it
    pc,         \* where each upload is in upload_handler / process_image_async
    dropped,    \* uploads whose task or connection died with the process
    body,       \* the multipart body of a request not yet read
    resp,       \* the HTTP status answered to each upload (0: none yet)
    meta,       \* the UploadMetadata moved into the spawned task
    outPath,    \* output_path of the task
    busy,       \* tasks that occupy a worker thread
    inserted,   \* uploads whose task has inserted into the cache
    sentBy,     \* tx.send calls made by each task
    rx,         \* the broadcast receiver of each SSE client
    calc,       \* the call of a library function under way: name, input, result
    model,      \* the file at the segmentation model's path in the cache directory
    prov        \* where each caller of get_model_path is

vars == <<running, workers, scanOk, crashes, clock, fs, cache, rwlock, pc,
          dropped, body, resp, meta, outPath, busy, inserted, sentBy, rx, calc,
          model, prov>>

\* The server's variables, which no library call touches.
server == <<running, workers, scanOk, crashes, clock, fs, cache, rwlock, pc,
            dropped, body, resp, meta, outPath, busy, inserted, sentBy, rx>>

\* No file at the model path.
NoFile == [exists |-> FALSE, written |-> 0, len |-> 0, md5 |-> "", by |-> 0]

\* The tasks that call get_model_path (each spawned task calls
\* replace_background, which calls it).
Callers == {1, 2}

NoResponse == [status |-> 0, len |-> 0, md5 |-> ""]

\* A task that is not in get_model_path.
NoCall ==
    [pc |-> "idle", attempts |-> 0, response |-> NoResponse, offset |-> 0,
     reason |-> "", result |-> NoFile]

Terminal == {"rejected", "skipped", "failed", "done"}

\* The task (or request) of upload u is alive in the running process.
Live(u) == running /\ u \notin dropped

FreeLock == [readers |-> {}, writer |-> 0]

NoReceiver == [connected |-> FALSE, behind |-> 0, last |-> "none"]

\* No library call under way.
NoCalc == [fn |-> "none"]

\* A worker thread is free to poll one more task.
WorkerFree == Cardinality(busy) < workers

Init ==
    /\ running = TRUE
    /\ workers \in WorkerCounts
    /\ scanOk \in BOOLEAN
    /\ crashes = 0
    /\ clock = 0
    /\ fs \in InitialDirs
    /\ cache = IF scanOk THEN initialize_revision_cache(fs) ELSE {}
    /\ rwlock = FreeLock
    /\ pc = [u \in Uploads |-> "idle"]
    /\ dropped = {}
    /\ body = [u \in Uploads |-> <<>>]
    /\ resp = [u \in Uploads |-> 0]
    /\ meta = [u \in Uploads |-> NoUpload]
    /\ outPath = [u \in Uploads |-> NoString]
    /\ busy = {}
    /\ inserted = {}
    /\ sentBy = [u \in Uploads |-> 0]
    /\ rx = [s \in Subs |-> NoReceiver]
    /\ calc = NoCalc
    /\ model = NoFile
    /\ prov = [p \in Callers |-> NoCall]

(* --------------------------- the HTTP boundary ------------------------- *)

\* A client opens POST /api/upload with body b (uploads arrive in order, and
\* a request arrives once the ones before it have been read).
Arrive(u, b) ==
    /\ running
    /\ pc[u] = "idle"
    /\ \A v \in Uploads : v < u => pc[v] # "idle"
    /\ \A v \in Uploads : pc[v] = "received" => v \in dropped
    /\ pc' = [pc EXCEPT ![u] = "received"]
    /\ body' = [body EXCEPT ![u] = b]
    /\ UNCHANGED <<calc, model, prov, running, workers, scanOk, crashes, clock, fs, cache, rwlock,
                   dropped, resp, meta, outPath, busy, inserted, sentBy, rx>>

\* upload_handler: read the parts, answer 400 when the image or the metadata
\* is missing, else spawn process_image_async and answer 202 at once.  The
\* handler itself needs a worker thread to be polled on.
upload_handler(u) ==
    /\ Live(u)
    /\ pc[u] = "received"
    /\ WorkerFree
    /\ LET parsed == ParseMultipart(body[u])
       IN  IF ~parsed.image_bytes \/ ~parsed.metadata.some
           THEN /\ resp' = [resp EXCEPT ![u] = BadRequest]
                /\ pc' = [pc EXCEPT ![u] = "rejected"]
                /\ meta' = meta
           ELSE /\ resp' = [resp EXCEPT ![u] = Accepted]
                /\ pc' = [pc EXCEPT ![u] = "spawned"]
                /\ meta' = [meta EXCEPT ![u] = parsed.metadata]
    /\ body' = [body EXCEPT ![u] = <<>>]
    /\ UNCHANGED <<calc, model, prov, running, workers, scanOk, crashes, clock, fs, cache, rwlock,
                   dropped, outPath, busy, inserted, sentBy, rx>>

(* ------------------------- process_image_async ------------------------- *)

\* The spawned task is picked up by a free worker thread.
Schedule(u) ==
    /\ Live(u)
    /\ pc[u] = "spawned"
    /\ WorkerFree
    /\ busy' = busy \cup {u}
    /\ pc' = [pc EXCEPT ![u] = "start"]
    /\ UNCHANGED <<calc, model, prov, running, workers, scanOk, crashes, clock, fs, cache, rwlock,
                   dropped, body, resp, meta, outPath, inserted, sentBy, rx>>

\* LoadConfig with the force flag not looked at.
LoadConfig_IgnoresForce(u) ==
    /\ Live(u)
    /\ pc[u] = "start"
    /\ \E ok \in BOOLEAN :
          IF ~ok
          THEN /\ pc' = [pc EXCEPT ![u] = "failed"]
               /\ busy' = busy \ {u}
          ELSE /\ pc' = [pc EXCEPT ![u] = "read_wait"]
               /\ busy' = busy
    /\ UNCHANGED <<calc, model, prov, running, workers, scanOk, crashes, clock, fs, cache, rwlock,
                   dropped, body, resp, meta, outPath, inserted, sentBy, rx>>

\* Config::load()?, then the branch on the force flag.
LoadConfig(u) ==
    /\ Live(u)
    /\ pc[u] = "start"
    /\ \E ok \in BOOLEAN :
          IF ~ok
          THEN /\ pc' = [pc EXCEPT ![u] = "failed"]
               /\ busy' = busy \ {u}
          ELSE /\ pc' = [pc EXCEPT ![u] = IF meta[u].force THEN "process" ELSE "read_wait"]
               /\ busy' = busy
    /\ UNCHANGED <<calc, model, prov, running, workers, scanOk, crashes, clock, fs, cache, rwlock,
                   dropped, body, resp, meta, outPath, inserted, sentBy, rx>>

\* revision_cache.read().await: granted when no writer holds the lock; else
\* the task is pending and gives its worker thread back until it is woken.
AcquireRead(u) ==
    /\ Live(u)
    /\ pc[u] = "read_wait"
    /\ IF rwlock.writer = 0
       THEN /\ u \in busy \/ WorkerFree
            /\ busy' = busy \cup {u}
            /\ rwlock' = [rwlock EXCEPT !.readers = @ \cup {u}]
            /\ pc' = [pc EXCEPT ![u] = "read_held"]
       ELSE /\ u \in busy
            /\ busy' = busy \ {u}
            /\ UNCHANGED <<rwlock, pc>>
    /\ UNCHANGED <<calc, model, prov, running, workers, scanOk, crashes, clock, fs, cache,
                   dropped, body, resp, meta, outPath, inserted, sentBy, rx>>

\* DedupCheck with the membership test lost: every upload goes on.
DedupCheck_NeverSkips(u) ==
    /\ Live(u)
    /\ pc[u] = "read_held"
    /\ rwlock' = [rwlock EXCEPT !.readers = @ \ {u}]
    /\ pc' = [pc EXCEPT ![u] = "process"]
    /\ UNCHANGED <<calc, model, prov, running, workers, scanOk, crashes, clock, fs, cache,
                   dropped, body, resp, meta, outPath, busy, inserted, sentBy, rx>>

\* DedupCheck with the read guard kept by a task that goes on to process.
DedupCheck_KeepsGuard(u) ==
    /\ Live(u)
    /\ pc[u] = "read_held"
    /\ IF meta[u].revision \in cache
       THEN /\ pc' = [pc EXCEPT ![u] = "skipped"]
            /\ busy' = busy \ {u}
            /\ rwlock' = [rwlock EXCEPT !.readers = @ \ {u}]
       ELSE /\ pc' = [pc EXCEPT ![u] = "process"]
            /\ busy' = busy
            /\ rwlock' = rwlock
    /\ UNCHANGED <<calc, model, prov, running, workers, scanOk, crashes, clock, fs, cache,
                   dropped, body, resp, meta, outPath, inserted, sentBy, rx>>

\* cache.contains(&metadata.revision): skip a known revision; the read guard
\* is dropped on both ways out.
DedupCheck(u) ==
    /\ Live(u)
    /\ pc[u] = "read_held"
    /\ rwlock' = [rwlock EXCEPT !.readers = @ \ {u}]
    /\ IF meta[u].revision \in cache
       THEN /\ pc' = [pc EXCEPT ![u] = "skipped"]
            /\ busy' = busy \ {u}
       ELSE /\ pc' = [pc EXCEPT ![u] = "process"]
            /\ busy' = busy
    /\ UNCHANGED <<calc, model, prov, running, workers, scanOk, crashes, clock, fs, cache,
                   dropped, body, resp, meta, outPath, inserted, sentBy, rx>>

\* image::load_from_memory, replace_background, burn_in_chyron: each may
\* return an error, none touches the directory or the cache.
ProcessImage(u) ==
    /\ Live(u)
    /\ pc[u] = "process"
    /\ \E ok \in BOOLEAN :
          IF ok
          THEN /\ pc' = [pc EXCEPT ![u] = "mkpath"]
               /\ busy' = busy
          ELSE /\ pc' = [pc EXCEPT ![u] = "failed"]
               /\ busy' = busy \ {u}
    /\ UNCHANGED <<calc, model, prov, running, workers, scanOk, crashes, clock, fs, cache, rwlock,
                   dropped, body, resp, meta, outPath, inserted, sentBy, rx>>

\* get_output_path (the name carries the current second), then
\* NamedTempFile::new_in(parent): an empty temporary file in the directory.
\* get_output_path with the file created under its final name at once.
get_output_path_InPlace(u) ==
    /\ Live(u)
    /\ pc[u] = "mkpath"
    /\ \E ok \in BOOLEAN :
          IF ok
          THEN /\ outPath' = [outPath EXCEPT
                     ![u] = FileName(meta[u].repo_name, FormatNow(clock), meta[u].revision)]
               /\ fs' = WithFile(fs, FileName(meta[u].repo_name, FormatNow(clock),
                                              meta[u].revision), EmptyFile(u))
               /\ pc' = [pc EXCEPT ![u] = "write"]
               /\ busy' = busy
          ELSE /\ pc' = [pc EXCEPT ![u] = "failed"]
               /\ busy' = busy \ {u}
               /\ UNCHANGED <<outPath, fs>>
    /\ UNCHANGED <<calc, model, prov, running, workers, scanOk, crashes, clock, cache, rwlock,
                   dropped, body, resp, meta, inserted, sentBy, rx>>

get_output_path(u) ==
    /\ Live(u)
    /\ pc[u] = "mkpath"
    /\ \E ok \in BOOLEAN :
          IF ok
          THEN /\ outPath' = [outPath EXCEPT
                     ![u] = FileName(meta[u].repo_name, FormatNow(clock), meta[u].revision)]
               /\ fs' = WithFile(fs, TempName(u), EmptyFile(u))
               /\ pc' = [pc EXCEPT ![u] = "write"]
               /\ busy' = busy
          ELSE /\ pc' = [pc EXCEPT ![u] = "failed"]
               /\ busy' = busy \ {u}
               /\ UNCHANGED <<outPath, fs>>
    /\ UNCHANGED <<calc, model, prov, running, workers, scanOk, crashes, clock, cache, rwlock,
                   dropped, body, resp, meta, inserted, sentBy, rx>>

\* image_metadata::save_png_with_metadata(&final_image, temp_path, ..)?: on an
\* error the NamedTempFile is dropped, which removes the temporary file.
WriteTemp(u) ==
    /\ Live(u)
    /\ pc[u] = "write"
    /\ \E ok \in BOOLEAN :
          IF ok
          THEN /\ fs' = WithFile(fs, TempName(u),
                           save_png_with_metadata(u, SomeMetadata(meta[u].revision,
                                                                  meta[u].repo_name)))
               /\ pc' = [pc EXCEPT ![u] = "persist"]
               /\ busy' = busy
          ELSE /\ fs' = WithoutFile(fs, TempName(u))
               /\ pc' = [pc EXCEPT ![u] = "failed"]
               /\ busy' = busy \ {u}
    /\ UNCHANGED <<calc, model, prov, running, workers, scanOk, crashes, clock, cache, rwlock,
                   dropped, body, resp, meta, outPath, inserted, sentBy, rx>>

\* Persist with the error of persist() swallowed: the task goes on to the
\* cache although nothing was renamed.
Persist_ErrorIgnored(u) ==
    /\ Live(u)
    /\ pc[u] = "persist"
    /\ \E ok \in BOOLEAN :
          /\ fs' = IF ok
                   THEN WithFile(WithoutFile(fs, TempName(u)), outPath[u], fs[TempName(u)])
                   ELSE WithoutFile(fs, TempName(u))
          /\ pc' = [pc EXCEPT ![u] = "write_wait"]
    /\ UNCHANGED <<calc, model, prov, running, workers, scanOk, crashes, clock, cache, rwlock,
                   dropped, body, resp, meta, outPath, busy, inserted, sentBy, rx>>

\* temp_file.persist(&output_path)?: rename over the final name (replacing a
\* file already there); on an error the temporary file is removed.
Persist(u) ==
    /\ Live(u)
    /\ pc[u] = "persist"
    /\ \E ok \in BOOLEAN :
          IF ok
          THEN /\ fs' = WithFile(WithoutFile(fs, TempName(u)), outPath[u], fs[TempName(u)])
               /\ pc' = [pc EXCEPT ![u] = "write_wait"]
               /\ busy' = busy
          ELSE /\ fs' = WithoutFile(fs, TempName(u))
               /\ pc' = [pc EXCEPT ![u] = "failed"]
               /\ busy' = busy \ {u}
    /\ UNCHANGED <<calc, model, prov, running, workers, scanOk, crashes, clock, cache, rwlock,
                   dropped, body, resp, meta, outPath, inserted, sentBy, rx>>

\* revision_cache.write().await: granted when nobody holds the lock.
AcquireWrite(u) ==
    /\ Live(u)
    /\ pc[u] = "write_wait"
    /\ IF rwlock = FreeLock
       THEN /\ u \in busy \/ WorkerFree
            /\ busy' = busy \cup {u}
            /\ rwlock' = [rwlock EXCEPT !.writer = u]
            /\ pc' = [pc EXCEPT ![u] = "write_held"]
       ELSE /\ u \in busy
            /\ busy' = busy \ {u}
            /\ UNCHANGED <<rwlock, pc>>
    /\ UNCHANGED <<calc, model, prov, running, workers, scanOk, crashes, clock, fs, cache,
                   dropped, body, resp, meta, outPath, inserted, sentBy, rx>>

\* CacheInsert with the event sent from inside the lock block as well.
CacheInsert_AlsoSends(u) ==
    /\ Live(u)
    /\ pc[u] = "write_held"
    /\ cache' = cache \cup {meta[u].revision}
    /\ inserted' = inserted \cup {u}
    /\ rwlock' = FreeLock
    /\ sentBy' = [sentBy EXCEPT ![u] = @ + 1]
    /\ pc' = [pc EXCEPT ![u] = "announce"]
    /\ UNCHANGED <<calc, model, prov, running, workers, scanOk, crashes, clock, fs,
                   dropped, body, resp, meta, outPath, busy, rx>>

\* cache.insert(metadata.revision.clone()); the write guard is dropped.
CacheInsert(u) ==
    /\ Live(u)
    /\ pc[u] = "write_held"
    /\ cache' = cache \cup {meta[u].revision}
    /\ inserted' = inserted \cup {u}
    /\ rwlock' = FreeLock
    /\ pc' = [pc EXCEPT ![u] = "announce"]
    /\ UNCHANGED <<calc, model, prov, running, workers, scanOk, crashes, clock, fs,
                   dropped, body, resp, meta, outPath, busy, sentBy, rx>>

\* broadcast::Sender::send: with no receiver it returns an error and stores
\* nothing; else every receiver is one more event behind.  It never waits.
Send(receivers) ==
    [s \in Subs |-> IF receivers[s].connected
                    THEN [receivers[s] EXCEPT !.behind = @ + 1]
                    ELSE receivers[s]]

\* let _ = tx.send("new_image"); Ok(())
Broadcast(u) ==
    /\ Live(u)
    /\ pc[u] = "announce"
    /\ rx' = Send(rx)
    /\ sentBy' = [sentBy EXCEPT ![u] = @ + 1]
    /\ pc' = [pc EXCEPT ![u] = "done"]
    /\ busy' = busy \ {u}
    /\ UNCHANGED <<calc, model, prov, running, workers, scanOk, crashes, clock, fs, cache, rwlock,
                   dropped, body, resp, meta, outPath, inserted>>


(* ------------------------------ SSE clients ---------------------------- *)

\* sse_handler: state.tx.subscribe(), a receiver that starts at the tail.
sse_handler(s) ==
    /\ running
    /\ ~rx[s].connected
    /\ WorkerFree
    /\ rx' = [rx EXCEPT ![s] = [connected |-> TRUE, behind |-> 0, last |-> "none"]]
    /\ UNCHANGED <<calc, model, prov, running, workers, scanOk, crashes, clock, fs, cache, rwlock, pc,
                   dropped, body, resp, meta, outPath, busy, inserted, sentBy>>

\* The loop leaving on any error of rx.recv(), Lagged included.
sse_recv_BreaksOnLag(s) ==
    /\ running
    /\ rx[s].connected
    /\ rx[s].behind > 0
    /\ WorkerFree
    /\ rx' = [rx EXCEPT ![s] =
                IF rx[s].behind > ChannelCapacity
                THEN NoReceiver
                ELSE [connected |-> TRUE, behind |-> rx[s].behind - 1, last |-> "event"]]
    /\ UNCHANGED <<calc, model, prov, running, workers, scanOk, crashes, clock, fs, cache, rwlock, pc,
                   dropped, body, resp, meta, outPath, busy, inserted, sentBy>>

\* One turn of the stream's loop once rx.recv() is ready: Lagged(n) when the
\* receiver's next event has been overwritten in the ring of ChannelCapacity
\* slots (the receiver moves to the oldest kept event and the loop goes on),
\* else Ok(msg), which is yielded to the client.  RecvError::Closed needs
\* every Sender dropped; AppState keeps one for the life of the router.
sse_recv(s) ==
    /\ running
    /\ rx[s].connected
    /\ rx[s].behind > 0
    /\ WorkerFree
    /\ rx' = [rx EXCEPT ![s] =
                IF rx[s].behind > ChannelCapacity
                THEN [connected |-> TRUE, behind |-> ChannelCapacity, last |-> "lagged"]
                ELSE [connected |-> TRUE, behind |-> rx[s].behind - 1, last |-> "event"]]
    /\ UNCHANGED <<calc, model, prov, running, workers, scanOk, crashes, clock, fs, cache, rwlock, pc,
                   dropped, body, resp, meta, outPath, busy, inserted, sentBy>>

(* ----------------------------- environment ----------------------------- *)

\* A second passes.
Tick ==
    /\ clock < MaxClock
    /\ clock' = clock + 1
    /\ UNCHANGED <<calc, model, prov, running, workers, scanOk, crashes, fs, cache, rwlock, pc,
                   dropped, body, resp, meta, outPath, busy, inserted, sentBy, rx>>

\* The process stops (shutdown or crash): tasks in flight are dropped where
\* they stand, no destructor runs, memory is gone; the directory stays.
Crash ==
    /\ running
    /\ crashes < MaxCrashes
    /\ running' = FALSE
    /\ crashes' = crashes + 1
    /\ dropped' = dropped \cup {u \in Uploads : pc[u] \notin Terminal \cup {"idle"}}
    /\ cache' = {}
    /\ rwlock' = FreeLock
    /\ busy' = {}
    /\ body' = [u \in Uploads |-> <<>>]
    /\ rx' = [s \in Subs |-> NoReceiver]
    /\ UNCHANGED <<calc, model, prov, workers, scanOk, clock, fs, pc, resp, meta, outPath, inserted, sentBy>>

\* create_router: the cache is the revisions of the listed images, or empty
\* when initialize_revision_cache returns an error (Config::load or read_dir).
create_router ==
    /\ ~running
    /\ \E ok \in BOOLEAN :
          /\ scanOk' = ok
          /\ cache' = IF ok THEN initialize_revision_cache(fs) ELSE {}
    /\ running' = TRUE
    /\ UNCHANGED <<calc, model, prov, workers, crashes, clock, fs, rwlock, pc, dropped, body, resp,
                   meta, outPath, busy, inserted, sentBy, rx>>

(* ---------------------------- specification ---------------------------- *)

\* The body upload_to_server builds: the metadata part, then the image part.
ClientBody(m) ==
    << [kind |-> "metadata", parsed |-> m], [kind |-> "image", parsed |-> NoUpload] >>
ClientBodies == {ClientBody(m) : m \in UploadMetadatas}

\* Every step of the server on behalf of upload u.
Serve(u) ==
    \/ upload_handler(u)
    \/ Schedule(u)
    \/ LoadConfig(u)
    \/ AcquireRead(u)
    \/ DedupCheck(u)
    \/ ProcessImage(u)
    \/ get_output_path(u)
    \/ WriteTemp(u)
    \/ Persist(u)
    \/ AcquireWrite(u)
    \/ CacheInsert(u)
    \/ Broadcast(u)

\* The server under uploads from the upload client, with the clock running
\* and the process stopped and started again; no SSE client is connected.
Next ==
    \/ \E u \in Uploads, b \in ClientBodies : Arrive(u, b)
    \/ \E u \in Uploads : Serve(u)
    \/ Tick
    \/ Crash
    \/ create_router

Spec == Init /\ [][Next]_vars

\* The server under arbitrary multipart bodies (any client may post).
NextHttp ==
    \/ \E u \in Uploads, b \in Bodies : Arrive(u, b)
    \/ \E u \in Uploads : Serve(u)

SpecHttp == Init /\ [][NextHttp]_vars

\* The server while the process keeps running.  The runtime polls every task
\* that is ready (tokio::spawn, server.rs:297), and the lock wakes its
\* waiters when a guard is dropped: a step of a task that stays possible is
\* taken at last.
NextLive ==
    \/ \E u \in Uploads, b \in ClientBodies : Arrive(u, b)
    \/ \E u \in Uploads : Serve(u)
    \/ Tick

SpecLive == Init /\ [][NextLive]_vars /\ \A u \in Uploads : WF_vars(Serve(u))

\* The server with SSE clients under an unending series of uploads of one
\* revision by one client, forced or not: the slot of a finished upload is
\* used again for the next one.
ForcedBody ==
    ClientBody([some |-> TRUE, revision |-> Rev1, repo_name |-> RepoName, force |-> TRUE])

NextUpload(u) ==
    /\ running
    /\ pc[u] \in Terminal
    /\ \A s \in Subs : rx[s].behind < MaxBehind
    /\ pc' = [pc EXCEPT ![u] = "idle"]
    /\ resp' = [resp EXCEPT ![u] = 0]
    /\ meta' = [meta EXCEPT ![u] = NoUpload]
    /\ outPath' = [outPath EXCEPT ![u] = NoString]
    /\ sentBy' = [sentBy EXCEPT ![u] = 0]
    /\ inserted' = inserted \ {u}
    /\ UNCHANGED <<calc, model, prov, running, workers, scanOk, crashes, clock, fs, cache, rwlock,
                   dropped, body, busy, rx>>

PlainBody ==
    ClientBody([some |-> TRUE, revision |-> Rev1, repo_name |-> RepoName, force |-> FALSE])

InitSse ==
    /\ Init
    /\ fs = << >>
    /\ scanOk

NextSse ==
    \/ \E b \in {ForcedBody, PlainBody} : Arrive(1, b)
    \/ Serve(1)
    \/ NextUpload(1)
    \/ \E s \in Subs : sse_handler(s)
    \/ \E s \in Subs : sse_recv(s)

SpecSse == InitSse /\ [][NextSse]_vars


(* ================================ claims =============================== *)

PreDedup == {"spawned", "start", "read_wait", "read_held"}
PreRename == PreDedup \cup {"process", "mkpath", "write", "persist"}
Renamed == {"write_wait", "write_held", "announce", "done"}

\* The listed artifacts whose image is the one upload u sent.
ArtifactsOf(u) == {n \in ListedNames(fs) : fs[n].by = u}

\* The revision the listing gives for file n.
ListedRevision(n) == parse_image_file(n, fs[n]).revision

\* C1 (dedup): a non-forced upload whose revision is in the cache before its
\* membership check is processed as a no-op: every step it takes while it
\* is before or at the check leaves the directory, the cache and the
\* broadcast count alone, and it can only end skipped (or failed in
\* Config::load); it never enters processing.
C1_DedupNoOp ==
    [][\A u \in Uploads :
          ( /\ Live(u) /\ u \notin dropped'
            /\ pc[u] \in PreDedup
            /\ ~meta[u].force
            /\ meta[u].revision \in cache
            /\ pc'[u] # pc[u] )
          => /\ pc'[u] \in PreDedup \cup {"skipped", "failed"}
             /\ fs' = fs
             /\ cache' = cache
             /\ inserted' = inserted
             /\ sentBy' = sentBy
             /\ ArtifactsOf(u) = {}]_vars

\* C1 witness: the second of two uploads of one revision was skipped after
\* the first was persisted, cached and announced.
C1_Witness ==
    \E u, v \in Uploads :
        /\ u # v
        /\ pc[v] = "done" /\ v \in inserted /\ outPath[v] \in ListedNames(fs)
        /\ pc[u] = "skipped" /\ ~meta[u].force
        /\ meta[u].revision = meta[v].revision
        /\ ArtifactsOf(u) = {} /\ sentBy[u] = 0 /\ sentBy[v] = 1

\* C2 (cached => on disk): every revision in the cache is the revision of a
\* listed artifact file, and a task is at or past the cache insertion only
\* with its artifact renamed to its final path.
C2_CachedImpliesFile ==
    /\ \A r \in cache : \E n \in ListedNames(fs) : ListedRevision(n) = r
    /\ \A u \in Uploads :
          /\ u \in inserted => pc[u] \in {"announce", "done"}
          /\ pc[u] \in {"write_held", "announce", "done"} =>
                /\ outPath[u] \in ListedNames(fs)
                /\ ListedRevision(outPath[u]) = meta[u].revision
                /\ fs[outPath[u]].complete
                /\ TempName(u) \notin DOMAIN fs

\* C2 witness: a task has inserted its revision and the server is running.
C2_Witness ==
    \E u \in Uploads :
        /\ running /\ u \in inserted /\ meta[u].revision \in cache
        /\ fs[outPath[u]].by = u

\* C3 (atomicity): an upload that failed, or that is (or was, when the
\* process stopped) at a step before the rename, has no artifact in the
\* listing and has added nothing to the cache; if its revision is in the
\* cache, another file accounts for it.
C3_Atomicity ==
    \A u \in Uploads :
        pc[u] \in PreRename \cup {"failed"} =>
            /\ ArtifactsOf(u) = {}
            /\ u \notin inserted
            /\ meta[u].revision \in cache =>
                  \E n \in ListedNames(fs) :
                      ListedRevision(n) = meta[u].revision /\ fs[n].by # u

\* C3 witness: the process stopped after upload u had written its temporary
\* file and before the rename, and has been started again; the temporary
\* file is still in the directory.
C3_Witness ==
    \E u \in Uploads :
        /\ running /\ u \in dropped /\ pc[u] = "persist"
        /\ TempName(u) \in DOMAIN fs /\ fs[TempName(u)].complete


\* The body has an image part / a metadata part that parses.
HasImage(b) == \E i \in DOMAIN b : b[i].kind = "image"
HasMetadata(b) == \E i \in DOMAIN b : b[i].kind = "metadata" /\ b[i].parsed.some

\* The handler has read the request of u in this step.
Handled(u) == pc[u] = "received" /\ pc'[u] # "received"

C5_BadRequest ==
    [][\A u \in Uploads :
          /\ (Handled(u) /\ ~(HasImage(body[u]) /\ HasMetadata(body[u])))
                => /\ resp'[u] = BadRequest
                   /\ pc'[u] = "rejected"
                   /\ ~meta'[u].some
                   /\ UNCHANGED <<fs, cache, inserted, sentBy, busy, rwlock>>
          /\ pc[u] = "rejected"
                => /\ pc'[u] = "rejected"
                   /\ resp'[u] = BadRequest
                   /\ ArtifactsOf(u) = {} /\ sentBy[u] = 0 /\ u \notin inserted]_vars

\* C5 witness: one upload was rejected with 400 while another one, accepted,
\* has run to its end.
C5_Witness ==
    \E u, v \in Uploads :
        /\ pc[u] = "rejected" /\ resp[u] = BadRequest /\ ~meta[u].some
        /\ pc[v] = "done" /\ resp[v] = Accepted

\* The steps of an upload, in order.
PipelineOrder ==
    {<<"idle", "received">>, <<"received", "rejected">>, <<"received", "spawned">>,
     <<"spawned", "start">>, <<"start", "failed">>, <<"start", "read_wait">>,
     <<"start", "process">>, <<"read_wait", "read_held">>, <<"read_held", "skipped">>,
     <<"read_held", "process">>, <<"process", "failed">>, <<"process", "mkpath">>,
     <<"mkpath", "failed">>, <<"mkpath", "write">>, <<"write", "failed">>,
     <<"write", "persist">>, <<"persist", "failed">>, <<"persist", "write_wait">>,
     <<"write_wait", "write_held">>, <<"write_held", "announce">>,
     <<"announce", "done">>}

ArtifactsIn(dir, u) == {n \in ListedNames(dir) : dir[n].by = u}

\* C6 (pipeline order): an upload moves only along the order check,
\* processing, rename, cache insertion, broadcast; its artifact appears only
\* in the rename step, its cache insertion happens only after that, and
\* tx.send is called once, in the last step, with the artifact listed and
\* the revision cached; an upload that ended skipped, failed or rejected has
\* sent nothing, a finished one exactly one event.
C6_PipelineOrder ==
    [][\A u \in Uploads :
          /\ pc'[u] # pc[u] => <<pc[u], pc'[u]>> \in PipelineOrder
          /\ ~(ArtifactsIn(fs', u) \subseteq ArtifactsIn(fs, u))
                => pc[u] = "persist" /\ pc'[u] = "write_wait"
          /\ (u \in inserted' /\ u \notin inserted)
                => /\ pc[u] = "write_held" /\ pc'[u] = "announce"
                   /\ outPath[u] \in ListedNames(fs)
          /\ sentBy'[u] # sentBy[u]
                => /\ pc[u] = "announce" /\ pc'[u] = "done"
                   /\ sentBy[u] = 0 /\ sentBy'[u] = 1
                   /\ u \in inserted
                   /\ meta[u].revision \in cache
                   /\ outPath[u] \in ListedNames(fs)
          /\ pc'[u] = "done" <=> sentBy'[u] = 1
          /\ pc'[u] # "done" => sentBy'[u] = 0]_vars

\* C6 witness: one upload is done, with its artifact listed, its revision
\* cached and one event sent; another one failed and sent none.
C6_Witness ==
    \E u, v \in Uploads :
        /\ pc[u] = "done" /\ sentBy[u] = 1 /\ u \in inserted
        /\ outPath[u] \in ListedNames(fs) /\ meta[u].revision \in cache
        /\ pc[v] = "failed" /\ sentBy[v] = 0

\* C7 (force): a forced upload whose revision is in the cache never takes
\* the membership check and is never skipped: from the start it goes on to
\* processing (or fails there like any upload), and when it is done its
\* artifact is listed, one event was sent and the revision is in the cache.
C7_ForceNotSkipped ==
    [][\A u \in Uploads :
          ( /\ Live(u) /\ u \notin dropped'
            /\ meta[u].force
            /\ meta[u].revision \in cache )
          => /\ pc'[u] \notin {"skipped", "read_wait", "read_held"}
             /\ (pc[u] = "start" /\ pc'[u] # "start") => pc'[u] \in {"process", "failed"}
             /\ (pc[u] = "start" /\ pc'[u] # "start") => UNCHANGED <<cache, rwlock>>
             /\ (pc[u] = "announce" /\ pc'[u] = "done")
                   => /\ outPath[u] \in ListedNames(fs')
                      /\ ListedRevision(outPath[u]) = meta[u].revision
                      /\ sentBy'[u] = 1
                      /\ meta[u].revision \in cache']_vars

\* C7 witness: the directory held an artifact of revision Rev1 at the start,
\* so the cache held Rev1 all along; a forced upload of Rev1 is done, its
\* own artifact is listed next to the old one and Rev1 is still cached.
C7_Witness ==
    \E u \in Uploads :
        /\ crashes = 0 /\ scanOk /\ LegacyName \in ListedNames(fs)
        /\ meta[u].force /\ meta[u].revision = Rev1
        /\ pc[u] = "done" /\ sentBy[u] = 1
        /\ outPath[u] \in ListedNames(fs) /\ fs[outPath[u]].by = u
        /\ Rev1 \in cache


\* C8 (acceptance never stalls), as claimed: whenever a request is waiting
\* to be read, the runtime has a worker thread free to run the handler, so
\* no task in flight has to finish first.
C8_AcceptanceNeverStalls ==
    \A u \in Uploads : (Live(u) /\ pc[u] = "received") => WorkerFree

\* The receiver of s took a turn of its loop in this step.
Received(s) == rx[s].connected /\ rx'[s] # rx[s] /\ rx'[s].behind <= rx[s].behind

\* C9 (lagging subscriber): a receiver more than ChannelCapacity events
\* behind gets Lagged at its next turn and stands at the oldest kept event,
\* which its following turn yields; a turn never closes the stream; and the
\* publisher's step from the cache insertion to its end is always possible
\* and always ends in "done", whatever the receivers' state.
C9_LaggedContinues ==
    [][/\ \A s \in Subs :
            /\ rx[s].connected => rx'[s].connected
            /\ (Received(s) /\ rx[s].behind > ChannelCapacity)
                  => /\ rx'[s].last = "lagged"
                     /\ rx'[s].behind = ChannelCapacity
            /\ (Received(s) /\ rx[s].behind <= ChannelCapacity)
                  => /\ rx'[s].last = "event"
                     /\ rx'[s].behind = rx[s].behind - 1
            /\ rx[s].last = "lagged" => rx[s].behind > 0
       /\ \A u \in Uploads :
            /\ (pc[u] = "announce" /\ pc'[u] # "announce")
                  => /\ pc'[u] = "done"
                     /\ sentBy'[u] = 1
                     /\ \A s \in Subs :
                           rx'[s].behind = rx[s].behind + (IF rx[s].connected THEN 1 ELSE 0)
            /\ (Live(u) /\ pc[u] = "announce") => ENABLED Broadcast(u)]_vars

\* C9 witness: a connected receiver has just been told that it lagged and
\* stands ChannelCapacity events behind, while the publisher has finished
\* yet another upload.
C9_Witness ==
    \E s \in Subs, u \in Uploads :
        /\ rx[s].connected /\ rx[s].last = "lagged"
        /\ rx[s].behind = ChannelCapacity + 1
        /\ pc[u] = "done" /\ sentBy[u] = 1

\* The revisions of the artifacts in a directory, read off the files: the
\* revision chunk of a png that has chunks, the revision in the name of a
\* png without chunks that is named as get_output_path names artifacts.
Stamps == {LegacyStamp} \cup {FormatNow(t) : t \in 0..MaxClock}

ExpectedRevisions(dir) ==
    {r \in Revisions :
        \E n \in DOMAIN dir :
            /\ EndsWith(n, PngSuffix) /\ Len(n) > Len(PngSuffix)
            /\ \/ dir[n].chunks /\ dir[n].revision = r
               \/ ~dir[n].chunks /\ \E t \in Stamps : n = FileName(RepoName, t, r)}

\* C10 as claimed: every start of the server leaves the cache equal to the
\* revisions of the artifacts in the directory.
C10_CacheRebuiltAlways ==
    [][(~running /\ running') => cache' = ExpectedRevisions(fs')]_vars

\* C10 as amended: a start whose directory scan succeeds leaves the cache
\* equal to the revisions of the artifacts in the directory, a start whose
\* scan fails leaves it empty; after a start whose scan succeeded, the
\* revision of an upload that was dropped after its rename is in the cache,
\* and a non-forced upload of that revision is skipped at its check.
C10_CacheRebuilt ==
    [][/\ (~running /\ running')
            => cache' = IF scanOk' THEN ExpectedRevisions(fs') ELSE {}
       /\ \A u \in Uploads :
            (running' /\ scanOk' /\ u \in dropped' /\ pc'[u] \in Renamed)
            => /\ meta'[u].revision \in cache'
               /\ \A v \in Uploads :
                     ( /\ Live(v) /\ v \notin dropped'
                       /\ ~meta[v].force /\ meta[v].revision = meta[u].revision
                       /\ pc[v] = "read_held" /\ pc'[v] # "read_held" )
                     => pc'[v] = "skipped" /\ fs' = fs]_vars

\* C10 witness: the server was stopped after the rename of upload u and
\* before its cache insertion, started again with a successful scan, and a
\* later non-forced upload of the same revision was skipped.
C10_Witness ==
    \E u, v \in Uploads :
        /\ running /\ scanOk /\ crashes = 1
        /\ u \in dropped /\ pc[u] \in {"write_wait", "write_held"} /\ u \notin inserted
        /\ outPath[u] \in ListedNames(fs)
        /\ meta[u].revision \in cache
        /\ v \notin dropped /\ pc[v] = "skipped" /\ ~meta[v].force
        /\ meta[v].revision = meta[u].revision
        /\ ArtifactsOf(v) = {}


\* C11 (no partial artifact): every file the listing shows is completely
\* written, at every moment and whatever the tasks in flight are doing; a
\* file that appears in the listing, or changes there, is the complete
\* temporary file of a task at its rename.
C11_NoPartialArtifact ==
    [][/\ \A n \in ListedNames(fs) : fs[n].complete
       /\ \A n \in ListedNames(fs') :
            /\ fs'[n].complete
            /\ (n \notin ListedNames(fs) \/ fs'[n] # fs[n])
                  => \E u \in Uploads :
                        /\ pc[u] = "persist" /\ pc'[u] = "write_wait"
                        /\ n = outPath[u]
                        /\ TempName(u) \in DOMAIN fs
                        /\ fs[TempName(u)].complete
                        /\ fs'[n] = fs[TempName(u)]]_vars

\* C11 witness: one task has a temporary file that is not written yet while
\* the artifact of another task is already listed.
C11_Witness ==
    \E u, v \in Uploads :
        /\ Live(u) /\ pc[u] = "write"
        /\ TempName(u) \in DOMAIN fs /\ ~fs[TempName(u)].complete
        /\ pc[v] \in Renamed /\ outPath[v] \in ListedNames(fs)
        /\ fs[outPath[v]].by = v /\ fs[outPath[v]].complete


(* ------------------- image_metadata: the text chunks ------------------- *)

\* The largest diff-stat number tried: the numbers are u32 in the code, and
\* 2^31 - 1 is the largest of them the model's integers hold.
StatMax == 2147483647

\* A character outside ISO 8859-1; "^" stands for any such character.  The
\* PNG tEXt chunks the encoder writes are Latin-1 text
\* (info.uncompressed_latin1_text), so a text with it cannot be encoded.
NonLatin1 == "^"

\* u32::to_string.
RECURSIVE to_string(_)
to_string(n) ==
    IF n < 10 THEN << Digit(n) >> ELSE to_string(n \div 10) \o << Digit(n % 10) >>

IsDigit(c) == c \in {"0", "1", "2", "3", "4", "5", "6", "7", "8", "9"}

DigitValue(c) == CHOOSE d \in 0..9 : Digit(d) = c

\* str::parse::<u32>() on a digit string, -1 for an error (empty string,
\* a character that is no digit, a value too large).
RECURSIVE ParseDigits(_, _, _)
ParseDigits(text, i, acc) ==
    IF i > Len(text) THEN acc
    ELSE IF ~IsDigit(text[i]) THEN -1
    ELSE IF acc > (StatMax - DigitValue(text[i])) \div 10 THEN -1
    ELSE ParseDigits(text, i + 1, acc * 10 + DigitValue(text[i]))

\* chunk.text.parse().unwrap_or(0)
ParseOrZero(text) ==
    IF Len(text) = 0 \/ ParseDigits(text, 1, 0) = -1 THEN 0 ELSE ParseDigits(text, 1, 0)

\* git::CommitMetadata (the path left out).
CommitMetadata(sha, message, commit_type, scope, timestamp, repo_name, branch_name, files_changed, insertions, deletions) ==
    [sha |-> sha, message |-> message, commit_type |-> commit_type, scope |-> scope,
     timestamp |-> timestamp, repo_name |-> repo_name, branch_name |-> branch_name,
     files_changed |-> files_changed, insertions |-> insertions, deletions |-> deletions]

Key(name) == <<"l", "o", "l", "c", "o", "m", "m", "i", "t", ":">> \o name

KeySha == Key(<<"s", "h", "a">>)
KeyMessage == Key(<<"m", "e", "s", "s", "a", "g", "e">>)
KeyType == Key(<<"t", "y", "p", "e">>)
KeyScope == Key(<<"s", "c", "o", "p", "e">>)
KeyTimestamp == Key(<<"t", "i", "m", "e", "s", "t", "a", "m", "p">>)
KeyRepo == Key(<<"r", "e", "p", "o">>)
KeyBranch == Key(<<"b", "r", "a", "n", "c", "h">>)
KeyDiff == Key(<<"d", "i", "f", "f">>)
KeyFilesChanged == Key(<<"f", "i", "l", "e", "s", "_", "c", "h", "a", "n", "g", "e", "d">>)
KeyInsertions == Key(<<"i", "n", "s", "e", "r", "t", "i", "o", "n", "s">>)
KeyDeletions == Key(<<"d", "e", "l", "e", "t", "i", "o", "n", "s">>)

Chunk(keyword, text) == [keyword |-> keyword, text |-> text]

\* CommitMetadata::diff_stats_string, as far as its emptiness and alphabet
\* go: empty when all three numbers are 0, else a text of digits and ASCII.
diff_stats_string(md) ==
    IF md.files_changed = 0 /\ md.insertions = 0 /\ md.deletions = 0
    THEN NoString
    ELSE to_string(md.files_changed) \o <<" ", "f">>

\* The chunks written under the key "lolcommit:revision" instead of
\* "lolcommit:sha".
TextChunks_RevisionKey(md) ==
    << Chunk(Key(<<"r", "e", "v", "i", "s", "i", "o", "n">>), md.sha),
       Chunk(KeyMessage, md.message),
       Chunk(KeyType, md.commit_type) >>
    \o (IF md.scope # NoString THEN << Chunk(KeyScope, md.scope) >> ELSE << >>)
    \o << Chunk(KeyTimestamp, md.timestamp),
          Chunk(KeyRepo, md.repo_name),
          Chunk(KeyBranch, md.branch_name),
          Chunk(KeyDiff, diff_stats_string(md)),
          Chunk(KeyFilesChanged, to_string(md.files_changed)),
          Chunk(KeyInsertions, to_string(md.insertions)),
          Chunk(KeyDeletions, to_string(md.deletions)) >>

\* The add_text_chunk calls of save_png_with_metadata, in order; the scope
\* chunk only for a scope that is not empty.
TextChunks(md) ==
    << Chunk(KeySha, md.sha),
       Chunk(KeyMessage, md.message),
       Chunk(KeyType, md.commit_type) >>
    \o (IF md.scope # NoString THEN << Chunk(KeyScope, md.scope) >> ELSE << >>)
    \o << Chunk(KeyTimestamp, md.timestamp),
          Chunk(KeyRepo, md.repo_name),
          Chunk(KeyBranch, md.branch_name),
          Chunk(KeyDiff, diff_stats_string(md)),
          Chunk(KeyFilesChanged, to_string(md.files_changed)),
          Chunk(KeyInsertions, to_string(md.insertions)),
          Chunk(KeyDeletions, to_string(md.deletions)) >>

Latin1(text) == \A i \in DOMAIN text : text[i] # NonLatin1

\* The PNG file save_png_with_metadata leaves: ok = FALSE when write_header
\* returns an error because a chunk is not Latin-1, else the text chunks
\* before the image data.
PngFile(ok, chunks) == [ok |-> ok, chunks |-> chunks]

WritePng(md) ==
    IF \A i \in DOMAIN TextChunks(md) : Latin1(TextChunks(md)[i].text)
    THEN PngFile(TRUE, TextChunks(md))
    ELSE PngFile(FALSE, << >>)

\* The value of the last chunk with the keyword, or the default.
RECURSIVE LastText(_, _, _, _)
LastText(chunks, keyword, i, default) ==
    IF i = 0 THEN default
    ELSE IF chunks[i].keyword = keyword THEN chunks[i].text
    ELSE LastText(chunks, keyword, i - 1, default)

TextOf(chunks, keyword) == LastText(chunks, keyword, Len(chunks), NoString)

HasKey(chunks, keyword) == \E i \in DOMAIN chunks : chunks[i].keyword = keyword

LolcommitKeys ==
    {KeySha, KeyMessage, KeyType, KeyScope, KeyTimestamp, KeyRepo, KeyBranch,
     KeyFilesChanged, KeyInsertions, KeyDeletions}

NoCommit == [some |-> FALSE]

SomeCommit(md) == [some |-> TRUE, md |-> md]

\* The loop of read_png_metadata over the text chunks: Some(metadata) when
\* a chunk under one of the ten keys was found, every field from its chunk
\* or left at its default.
ReadChunks(chunks) ==
    IF \E k \in LolcommitKeys : HasKey(chunks, k)
    THEN SomeCommit(CommitMetadata(
            TextOf(chunks, KeySha), TextOf(chunks, KeyMessage), TextOf(chunks, KeyType),
            TextOf(chunks, KeyScope), TextOf(chunks, KeyTimestamp), TextOf(chunks, KeyRepo),
            TextOf(chunks, KeyBranch),
            IF HasKey(chunks, KeyFilesChanged)
            THEN ParseOrZero(TextOf(chunks, KeyFilesChanged)) ELSE 0,
            IF HasKey(chunks, KeyInsertions)
            THEN ParseOrZero(TextOf(chunks, KeyInsertions)) ELSE 0,
            IF HasKey(chunks, KeyDeletions)
            THEN ParseOrZero(TextOf(chunks, KeyDeletions)) ELSE 0))
    ELSE NoCommit


(* ----------------- image_metadata: the file name fallback -------------- *)

\* parse_timestamp: "YYYYMMDD-HHMMSS" (15 characters) as
\* "YYYY-MM-DD HH:MM:SS", no result for another length.
parse_timestamp(timestamp) ==
    IF Len(timestamp) # 15
    THEN [some |-> FALSE, text |-> NoString]
    ELSE [some |-> TRUE,
          text |-> SubSeq(timestamp, 1, 4) \o <<"-">> \o SubSeq(timestamp, 5, 6)
                   \o <<"-">> \o SubSeq(timestamp, 7, 8) \o <<" ">>
                   \o SubSeq(timestamp, 10, 11) \o <<":">> \o SubSeq(timestamp, 12, 13)
                   \o <<":">> \o SubSeq(timestamp, 14, 15)]

\* The fallback with the number of pieces not looked at: a missing piece is
\* taken as empty.
ParseFileName_NoLengthCheck(name) ==
    IF ~EndsWith(name, PngSuffix)
    THEN NoCommit
    ELSE LET parts == RSplitN3(StripSuffix(name, PngSuffix))
             part(i) == IF i <= Len(parts) THEN parts[i] ELSE NoString
             timestamp == IF parse_timestamp(part(2)).some
                          THEN parse_timestamp(part(2)).text
                          ELSE part(3) \o <<"-">> \o part(2)
         IN  SomeCommit(CommitMetadata(part(1), NoString, NoString, NoString,
                                       timestamp, part(3), NoString, 0, 0, 0))

\* The fallback of parse_image_file: the name without ".png" split from the
\* right into sha, time part and repository name; the timestamp is what
\* parse_timestamp makes of the time part, else "{repo_name}-{time_part}".
ParseFileName(name) ==
    IF ~EndsWith(name, PngSuffix)
    THEN NoCommit
    ELSE LET parts == RSplitN3(StripSuffix(name, PngSuffix))
         IN  IF Len(parts) # 3
             THEN NoCommit
             ELSE LET sha == parts[1]
                      time_part == parts[2]
                      repo_name == parts[3]
                      timestamp == IF parse_timestamp(time_part).some
                                   THEN parse_timestamp(time_part).text
                                   ELSE repo_name \o <<"-">> \o time_part
                  IN  SomeCommit(CommitMetadata(sha, NoString, NoString, NoString,
                                                timestamp, repo_name, NoString, 0, 0, 0))

\* parse_image_file on a file with this name: the embedded metadata when
\* read_png_metadata returns Ok(Some(..)), else the fallback (also when the
\* file cannot be read as a PNG: file.ok = FALSE).
ParseImageFile(name, file) ==
    IF file.ok /\ ReadChunks(file.chunks).some
    THEN ReadChunks(file.chunks)
    ELSE ParseFileName(name)

(* ------------------------ the listing, in detail ----------------------- *)

\* The characters of the model in the order of their bytes.
Ascii ==
    <<" ", "-", ".", "0", "1", "2", "3", "4", "5", "6", "7", "8", "9", ":", "T", "^",
      "_", "a", "b", "c", "d", "e", "f", "g", "h", "i", "j", "k", "l", "m", "n", "o",
      "p", "q", "r", "s", "t", "u", "v", "w", "x", "y", "z">>

Ord(c) == CHOOSE i \in DOMAIN Ascii : Ascii[i] = c

\* String::cmp: a is greater than b, byte by byte, a proper prefix being less.
RECURSIVE StrGreater(_, _, _)
StrGreater(a, b, i) ==
    IF i > Len(a) THEN FALSE
    ELSE IF i > Len(b) THEN TRUE
    ELSE IF a[i] # b[i] THEN Ord(a[i]) > Ord(b[i])
    ELSE StrGreater(a, b, i + 1)

\* One listed image: the path set by parse_image_file and the metadata.
Image(name, md) == [name |-> name, md |-> md]

\* Insertion of image x into a list sorted by timestamp descending, after
\* the images that do not compare less (the sort is stable).
RECURSIVE InsertByTimestamp(_, _, _)
InsertByTimestamp(sorted, x, i) ==
    IF i > Len(sorted)
    THEN Append(sorted, x)
    ELSE IF StrGreater(x.md.timestamp, sorted[i].md.timestamp, 1)
    THEN SubSeq(sorted, 1, i - 1) \o << x >> \o SubSeq(sorted, i, Len(sorted))
    ELSE InsertByTimestamp(sorted, x, i + 1)

\* images.sort_by(|a, b| b.timestamp.cmp(&a.timestamp))
RECURSIVE SortByTimestamp(_, _, _)
SortByTimestamp(images, i, sorted) ==
    IF i > Len(images) THEN sorted
    ELSE SortByTimestamp(images, i + 1, InsertByTimestamp(sorted, images[i], 1))

\* The filters of get_image_list over the entries in read_dir order.
RECURSIVE ParsedImages(_, _)
ParsedImages(entries, i) ==
    IF i > Len(entries) THEN << >>
    ELSE LET e == entries[i]
             parsed == ParseImageFile(e.name, e.file)
         IN  (IF Extension(e.name) = <<"p", "n", "g">> /\ parsed.some
              THEN << Image(e.name, parsed.md) >>
              ELSE << >>)
             \o ParsedImages(entries, i + 1)

\* get_image_list over a directory given as its entries in read_dir order.
ListImages(entries) == SortByTimestamp(ParsedImages(entries, 1), 1, << >>)

(* ------------------- git: conventional commit messages ---------------- *)

\* str::find: index of the first c in s, 0 when there is none.
Find(s, c) ==
    IF \E i \in DOMAIN s : s[i] = c
    THEN CHOOSE i \in DOMAIN s : s[i] = c /\ \A j \in 1..(i - 1) : s[j] # c
    ELSE 0

IsSpace(c) == c \in {" ", "\n"}

\* str::trim
Trim(s) ==
    IF \A i \in DOMAIN s : IsSpace(s[i])
    THEN NoString
    ELSE LET first == CHOOSE i \in DOMAIN s : ~IsSpace(s[i]) /\ \A j \in 1..(i - 1) : IsSpace(s[j])
             last  == CHOOSE i \in DOMAIN s :
                         ~IsSpace(s[i]) /\ \A j \in (i + 1)..Len(s) : IsSpace(s[j])
         IN  SubSeq(s, first, last)

\* message.lines().next().unwrap_or(message)
FirstLine(message) ==
    IF Find(message, "\n") = 0 THEN message
    ELSE SubSeq(message, 1, Find(message, "\n") - 1)

Commit == <<"c", "o", "m", "m", "i", "t">>

parse_commit_type(message) ==
    LET first_line == FirstLine(message)
        colon_pos == Find(first_line, ":")
        prefix == SubSeq(first_line, 1, colon_pos - 1)
        paren_pos == Find(prefix, "(")
    IN  IF colon_pos = 0 THEN Commit
        ELSE IF paren_pos # 0 THEN Trim(SubSeq(prefix, 1, paren_pos - 1))
        ELSE Trim(prefix)

\* The prefix cut at the last ':' of the message instead of the first.
strip_commit_prefix_LastColon(message) ==
    IF RFind(message, ":") = 0 THEN message
    ELSE Trim(SubSeq(message, RFind(message, ":") + 1, Len(message)))

strip_commit_prefix(message) ==
    LET colon_pos == Find(message, ":")
    IN  IF colon_pos = 0 THEN message
        ELSE Trim(SubSeq(message, colon_pos + 1, Len(message)))

\* parse_commit_scope: the text between the first '(' and the first ')' of
\* the prefix; the slice panics when that ')' stands before the '('.
parse_commit_scope(message) ==
    LET colon_pos == Find(message, ":")
        prefix == SubSeq(message, 1, colon_pos - 1)
        open_paren == Find(prefix, "(")
        close_paren == Find(prefix, ")")
    IN  IF colon_pos = 0 \/ open_paren = 0 \/ close_paren = 0
        THEN [panic |-> FALSE, text |-> NoString]
        ELSE IF close_paren < open_paren
        THEN [panic |-> TRUE, text |-> NoString]
        ELSE [panic |-> FALSE, text |-> Trim(SubSeq(prefix, open_paren + 1, close_paren - 1))]

\* Commit messages: every text of at most MaxMsg characters over a letter,
\* the two parentheses, the colon, the space and the line feed.
MsgChars == {"a", "(", ")", ":", " ", "\n"}
Messages == UNION {[1..n -> MsgChars] : n \in 0..MaxMsg}

\* The call under way returns.
Return ==
    /\ calc # NoCalc
    /\ calc' = NoCalc
    /\ UNCHANGED <<server, model, prov>>

InitLib ==
    /\ Init
    /\ workers = 1
    /\ scanOk
    /\ fs = << >>

\* The three functions on one message.
parse_commit(message) ==
    /\ calc = NoCalc
    /\ calc' = [fn |-> "parse_commit", message |-> message,
                commit_type |-> parse_commit_type(message),
                stripped |-> strip_commit_prefix(message),
                scope |-> parse_commit_scope(message)]
    /\ UNCHANGED <<server, model, prov>>

NextGit ==
    \/ calc = NoCalc /\ \E message \in Messages : parse_commit(message)
    \/ Return

SpecGit == InitLib /\ [][NextGit]_vars

(* ------------------- image_processor: the stat numbers ----------------- *)

RECURSIVE Pow2(_)
Pow2(k) == IF k = 0 THEN 1 ELSE 2 * Pow2(k - 1)

\* Round to nearest, ties to even, of num / den for a power of two den.
RoundHalfEven(num, den) ==
    LET q == num \div den
        r == num % den
    IN  IF 2 * r > den \/ (2 * r = den /\ q % 2 = 1) THEN q + 1 ELSE q

\* n as f32: n itself below 2^24, else n rounded to 24 significant bits.
RECURSIVE BitLength(_)
BitLength(n) == IF n = 0 THEN 0 ELSE 1 + BitLength(n \div 2)

AsF32(n) ==
    IF BitLength(n) <= 24 THEN n
    ELSE RoundHalfEven(n, Pow2(BitLength(n) - 24)) * Pow2(BitLength(n) - 24)

\* The f32 quotient x / (2^a * c), c odd, for 2^a * c <= x, as the pair of
\* its 24-bit significand m and the shift s: the quotient is m / 2^s.
RECURSIVE Log2Floor(_, _, _)
Log2Floor(x, d, e) == IF d * Pow2(e + 1) <= x THEN Log2Floor(x, d, e + 1) ELSE e

DivF32(x, a, c) ==
    LET e == Log2Floor(x, Pow2(a) * c, 0)
        s == 23 - e
        p == Pow2(s - a)
        whole == (x \div c) * p + ((x % c) * p) \div c
        rem == ((x % c) * p) % c
    IN  [m |-> IF 2 * rem > c THEN whole + 1 ELSE whole, s |-> s]

\* format!("{:.1}", f): the tenths of f rounded to nearest, ties to even,
\* written with one decimal place.
OneDecimal(f) ==
    LET tenths == RoundHalfEven(10 * f.m, Pow2(f.s))
    IN  to_string(tenths \div 10) \o <<".">> \o << Digit(tenths % 10) >>

\* The number cut to one decimal place instead of rounded.
format_stat_number_Truncating(n) ==
    IF n <= 999 THEN to_string(n)
    ELSE IF n < 1000000
    THEN to_string(n \div 1000) \o <<".">> \o << Digit((n \div 100) % 10) >> \o <<"k">>
    ELSE to_string(n \div 1000000) \o <<".">> \o << Digit((n \div 100000) % 10) >> \o <<"M">>

format_stat_number(n) ==
    IF n <= 999 THEN to_string(n)
    ELSE IF n < 1000000
    THEN OneDecimal(DivF32(AsF32(n), 3, 125)) \o <<"k">>
    ELSE OneDecimal(DivF32(AsF32(n), 6, 15625)) \o <<"M">>

\* The numbers tried: all up to MaxN, the ends of the ranges, numbers at
\* and next to a tie between two tenths, and numbers that f32 does not hold.
StatNumbers ==
    (0..MaxN) \cup
    {9949, 9950, 9951, 99949, 99950, 99951, 999949, 999950, 999999,
     1000000, 1049999, 1050000, 1050001, 1250000, 1350000, 1567890, 9950000,
     16777215, 16777217, 33554435, 999950000, 1999949999, 2000000000}

format_stat(n) ==
    /\ calc = NoCalc
    /\ calc' = [fn |-> "format_stat_number", n |-> n, out |-> format_stat_number(n)]
    /\ UNCHANGED <<server, model, prov>>

(* ----------------------- image_processor: the chyron ------------------- *)

\* DiffStats: files_changed, insertions, deletions.
DiffStats(files_changed, insertions, deletions) ==
    [files_changed |-> files_changed, insertions |-> insertions,
     deletions |-> deletions]

is_empty(stats) ==
    stats.files_changed = 0 /\ stats.insertions = 0 /\ stats.deletions = 0

\* Pixels from the image's right edge to the end of the computed width.
RightMargin == 30

\* Pixels from the image's right edge to the revision when there are no stats.
DefaultOffset == 150

\* Estimated pixels per character, and the gap after a segment.
CharWidth == 10
SmallGap == 10

\* (str.len() as f32 * 10.0) as i32
text_width(str) == Len(str) * CharWidth

files_str(stats) == <<"(">> \o format_stat_number(stats.files_changed) \o <<")">>
insert_str(stats) == <<"+">> \o format_stat_number(stats.insertions)
delete_str(stats) == <<"-">> \o format_stat_number(stats.deletions)

\* The width computed with the files segment counted whatever its value.
total_width_FilesAlways(stats) ==
    text_width(files_str(stats)) + SmallGap
    + (IF stats.insertions > 0 THEN text_width(insert_str(stats)) + SmallGap ELSE 0)
    + (IF stats.deletions > 0 THEN text_width(delete_str(stats)) ELSE 0)

total_width(stats) ==
    (IF stats.files_changed > 0 THEN text_width(files_str(stats)) + SmallGap ELSE 0)
    + (IF stats.insertions > 0 THEN text_width(insert_str(stats)) + SmallGap ELSE 0)
    + (IF stats.deletions > 0 THEN text_width(delete_str(stats)) ELSE 0)

stats_start_x(width, stats) ==
    IF ~is_empty(stats) THEN width - RightMargin - total_width(stats)
    ELSE width - DefaultOffset

\* One draw_text_mut call of the stats: what is drawn, where and in which colour.
Segment(name, color, x, text) ==
    [segment |-> name, color |-> color, x |-> x, text |-> text]

\* The draw_text_mut calls of the stats, in the order they are made, with
\* x_offset advanced as the code advances it.
DrawStats(width, stats) ==
    LET x0 == stats_start_x(width, stats)
        x1 == IF stats.files_changed > 0
              THEN x0 + text_width(files_str(stats)) + SmallGap ELSE x0
        x2 == IF stats.insertions > 0
              THEN x1 + text_width(insert_str(stats)) + SmallGap ELSE x1
    IN  IF is_empty(stats) THEN <<>>
        ELSE (IF stats.files_changed > 0
              THEN << Segment("files", "yellow", x0, files_str(stats)) >> ELSE <<>>)
             \o (IF stats.insertions > 0
                 THEN << Segment("insertions", "green", x1, insert_str(stats)) >> ELSE <<>>)
             \o (IF stats.deletions > 0
                 THEN << Segment("deletions", "red", x2, delete_str(stats)) >> ELSE <<>>)

\* The values a diff stat takes, and the image widths.
StatValues == {0, 7, 42, 1234, 1567890}
ImageWidths == {640, 1280}

overlay_chyron(width, stats) ==
    /\ calc = NoCalc
    /\ calc' = [fn |-> "overlay_chyron", width |-> width, stats |-> stats,
                total_width |-> IF is_empty(stats) THEN 0 ELSE total_width(stats),
                sha_x |-> stats_start_x(width, stats),
                drawn |-> DrawStats(width, stats)]
    /\ UNCHANGED <<server, model, prov>>

(* ------------------- image_processor: the chyron band ------------------ *)

\* let chyron_height = 80;
ChyronHeight == 80

\* A u32 as its two 16-bit halves.
Half == 65536
U32(hi, lo) == [hi |-> hi, lo |-> lo]

\* a - b on u32, a and b below 2^16: the difference, or 2^32 + (a - b) when
\* b is the larger (the result of a build without overflow checks).
wrapping_sub(a, b) ==
    IF a >= b THEN U32(0, a - b) ELSE U32(Half - 1, Half + (a - b))

\* The builds: overflow checks on (the dev profile) or off (release).
Builds == {"debug", "release"}

\* y_start as i32: the low 32 bits read as a signed number.
AsI32(v) == IF v.hi >= Half \div 2 THEN (v.hi - Half) * Half + v.lo ELSE v.hi * Half + v.lo

\* y in y_start..height
InBand(y, y_start, height) == y_start.hi = 0 /\ y_start.lo <= y /\ y < height

\* The opacities tried, in quarters (each exact in f32).
Quarters == 4
Opacities == 0..Quarters

\* (0.0 * overlay_alpha + c as f32 * (1.0 - overlay_alpha)) as u8
Darken(c, overlay_alpha) == (c * (Quarters - overlay_alpha)) \div Quarters

\* The image given: pixel (x, y) as [r, g, b, a], from a pattern.
Seeds == {0, 128, 255}
BandWidths == {1, 2}
PixelAt(x, y, seed) ==
    << (37 * y + 101 * x + seed) % 256, (59 * y + seed) % 256,
       (83 * y + 7 * x) % 256, (11 * y + 5 * x + seed) % 256 >>
ImageOf(width, height, seed) ==
    [y \in 0..(height - 1) |-> [x \in 0..(width - 1) |-> PixelAt(x, y, seed)]]

\* The loop over y_start..height and 0..width.
DrawBand(image, width, height, y_start, overlay_alpha) ==
    [y \in 0..(height - 1) |->
        [x \in 0..(width - 1) |->
            IF InBand(y, y_start, height)
            THEN << Darken(image[y][x][1], overlay_alpha),
                    Darken(image[y][x][2], overlay_alpha),
                    Darken(image[y][x][3], overlay_alpha),
                    image[y][x][4] >>
            ELSE image[y][x]]]

\* The heights tried: below, at and above the height of the band.
Heights == {1, MaxRows - 43, ChyronHeight - 1, ChyronHeight, ChyronHeight + 1, MaxRows}

\* overlay_chyron up to the band: height - chyron_height panics in a build
\* with overflow checks when the image is lower than the band, and wraps in
\* a build without; then the band and the row of the title.
overlay_chyron_band(width, height, seed, overlay_alpha, build) ==
    /\ calc = NoCalc
    /\ LET image == ImageOf(width, height, seed)
           y_start == wrapping_sub(height, ChyronHeight)
       IN  calc' = IF height < ChyronHeight /\ build = "debug"
                   THEN [fn |-> "overlay_chyron_band", height |-> height, width |-> width,
                         image |-> image, panicked |-> TRUE]
                   ELSE [fn |-> "overlay_chyron_band", height |-> height, width |-> width,
                         image |-> image, panicked |-> FALSE,
                         y_start |-> y_start,
                         title_y |-> AsI32(y_start) + 10,
                         out |-> DrawBand(image, width, height, y_start, overlay_alpha)]
    /\ UNCHANGED <<server, model, prov>>

(* --------------------------- the upload client ------------------------- *)

\* StatusCode::is_success
is_success(status) == 200 <= status /\ status <= 299

Ok == [ok |-> TRUE, error |-> ""]
Err(error) == [ok |-> FALSE, error |-> error]

\* What a camera device may be: one that captures, one that exists but is in
\* use, one that does not exist, and one whose frame cannot be read or decoded.
DeviceStates == {"works", "busy", "missing", "broken"}

\* camera::try_capture_from_device: Camera::new fails on a device that is not
\* there, open_stream fails with "busy" or "in use" on one that is in use.
try_capture_from_device(device) ==
    CASE device = "works" -> Ok
      [] device = "busy" -> Err("CameraBusy")
      [] device = "missing" -> Err("Nokhwa")
      [] device = "broken" -> Err("Io")

\* camera::capture_image: the devices are tried in order; the first image is
\* returned, or the last error, or an error when no device is configured.
RECURSIVE capture_image(_)
capture_image(devices) ==
    IF devices = <<>> THEN Err("Io")
    ELSE LET first == try_capture_from_device(Head(devices))
         IN  IF first.ok \/ Tail(devices) = <<>> THEN first
             ELSE capture_image(Tail(devices))

\* What the client's request meets: no connection, or an answer with a status.
NoConnection == [connected |-> FALSE, status |-> 0]
ServerAnswers ==
    {NoConnection}
    \cup { [connected |-> TRUE, status |-> st] : st \in {200, 202, 302, 400, 404, 500, 503} }

\* capture::upload_to_server
upload_to_server(answer) ==
    IF ~answer.connected THEN Err("ServerConnectionFailed")
    ELSE IF is_success(answer.status) THEN Ok
    ELSE Err("UploadFailed")

\* capture::capture_lolcommit: the git calls, the capture, the upload; the
\* first error is returned.
capture_lolcommit(git, devices, answer) ==
    IF ~git THEN Err("Git")
    ELSE IF ~capture_image(devices).ok THEN capture_image(devices)
    ELSE upload_to_server(answer)

\* lolcommits_upload's main: the exit code of the process.
ExitCode(quiet, result) ==
    IF result.ok THEN 0
    ELSE IF result.error = "CameraBusy" /\ quiet THEN 0
    ELSE 1

lolcommits_upload(quiet, git, devices, answer) ==
    /\ calc = NoCalc
    /\ calc' = [fn |-> "lolcommits_upload", quiet |-> quiet, git |-> git,
                devices |-> devices, answer |-> answer,
                result |-> capture_lolcommit(git, devices, answer),
                exit |-> ExitCode(quiet, capture_lolcommit(git, devices, answer))]
    /\ UNCHANGED <<server, model, prov>>

(* ---------------- the library functions, called one by one ------------- *)

\* The metadata the calls are tried on: empty and non-empty fields, a
\* message that is not Latin-1, diff-stat numbers of one and more digits
\* up to StatMax.
Metadatas ==
    { CommitMetadata(sha, message, commit_type, scope,
                     <<"2", "0", "2", "4">>, RepoName, branch_name,
                     files_changed, insertions, deletions) :
        sha \in {NoString, Rev1},
        message \in {NoString, <<"f", "i", "x">>, <<"f", NonLatin1>>},
        commit_type \in {NoString, <<"f", "i", "x">>},
        scope \in {NoString, <<"a", "p", "i">>},
        branch_name \in {NoString, <<"m">>},
        files_changed \in {0, 1, 10, StatMax},
        insertions \in {0, 305},
        deletions \in {0, StatMax} }

\* The days of January 2024 the files are stamped with, at 15:30:00.
Days == 1..MaxDay

\* chrono's "%Y%m%d-%H%M%S" and "%Y-%m-%d %H:%M:%S" of day t.
StampOf(t) ==
    <<"2", "0", "2", "4", "0", "1", "0", Digit(t), "-", "1", "5", "3", "0", "0", "0">>
PrettyOf(t) ==
    <<"2", "0", "2", "4", "-", "0", "1", "-", "0", Digit(t), " ",
      "1", "5", ":", "3", "0", ":", "0", "0">>

MyRepo == <<"m", "y", "r", "e", "p", "o">>
Abc1234 == <<"a", "b", "c", "1", "2", "3", "4">>
LibRepos == {MyRepo, RepoName}
LibRevs == {Abc1234, Rev1}

\* Names made by get_output_path, and names that were not: without a dash,
\* with one dash, three short pieces, a time part of 15 characters without a
\* dash, no ".png" at the end, nothing before ".png".
PatternNames == {FileName(repo, StampOf(t), rev) : repo \in LibRepos, t \in Days, rev \in LibRevs}
OtherNames ==
    { ForeignName,
      <<"a", "-", "b">> \o PngSuffix,
      <<"a", "-", "b", "-", "c">> \o PngSuffix,
      <<"r", "-", "2", "0", "2", "4", "0", "1", "0", "2", "T", "1", "5", "3", "0", "0", "0",
        "-", "a", "1">> \o PngSuffix,
      <<"a", "-", "b", "-", "c", ".", "t", "x", "t">>,
      PngSuffix }

\* The metadata the upload client embeds on day t.
EmbeddedOn(t) ==
    CommitMetadata(Rev2, <<"f", "i", "x">>, <<"f", "i", "x">>, NoString, PrettyOf(t),
                   RepoName, <<"m">>, 1, 0, 0)

\* Files: not a PNG, a PNG without text chunks, a PNG with a text chunk of
\* another program, PNGs written by save_png_with_metadata.
Unreadable == PngFile(FALSE, << >>)
NoChunks == PngFile(TRUE, << >>)
ForeignChunk == PngFile(TRUE, << Chunk(<<"c">>, <<"x">>) >>)
LibFiles == {Unreadable, NoChunks, ForeignChunk} \cup {WritePng(EmbeddedOn(t)) : t \in Days}

Entry(name, file) == [name |-> name, file |-> file]

\* What a directory may hold: legacy artifacts, artifacts with embedded
\* metadata, a foreign png.
LibEntries ==
    {Entry(FileName(repo, StampOf(t), Rev1), NoChunks) : repo \in LibRepos, t \in Days}
    \cup {Entry(FileName(RepoName, StampOf(t), Rev2), WritePng(EmbeddedOn(t))) : t \in Days}
    \cup {Entry(ForeignName, NoChunks)}

\* Directories of at most MaxFiles files, in every read_dir order.
LibDirs ==
    {d \in UNION {[1..n -> LibEntries] : n \in 0..MaxFiles} :
        \A i, j \in DOMAIN d : i # j => d[i].name # d[j].name}

\* parse_image_file(path)
parse_file(name, file) ==
    /\ calc = NoCalc
    /\ calc' = [fn |-> "parse_image_file", name |-> name, file |-> file,
                out |-> ParseImageFile(name, file)]
    /\ UNCHANGED <<server, model, prov>>

\* get_image_list(config) over the directory d.
list_images(d) ==
    /\ calc = NoCalc
    /\ calc' = [fn |-> "get_image_list", entries |-> d, out |-> ListImages(d)]
    /\ UNCHANGED <<server, model, prov>>

\* save_png_with_metadata(image, path, md)
save_png(md) ==
    /\ calc = NoCalc
    /\ calc' = [fn |-> "save_png_with_metadata", md |-> md, file |-> WritePng(md)]
    /\ UNCHANGED <<server, model, prov>>

\* read_png_metadata(path) on the file just written.
read_png ==
    /\ calc.fn = "save_png_with_metadata"
    /\ calc.file.ok
    /\ calc' = [fn |-> "read_png_metadata", md |-> calc.md, file |-> calc.file,
                out |-> ReadChunks(calc.file.chunks)]
    /\ UNCHANGED <<server, model, prov>>

NextLib ==
    \/ calc = NoCalc /\ \E md \in Metadatas : save_png(md)
    \/ read_png
    \/ calc = NoCalc /\ \E name \in PatternNames \cup OtherNames, file \in LibFiles :
                            parse_file(name, file)
    \/ calc = NoCalc /\ \E d \in LibDirs : list_images(d)
    \/ calc = NoCalc /\ \E n \in StatNumbers : format_stat(n)
    \/ calc = NoCalc /\ \E quiet \in BOOLEAN, git \in BOOLEAN, answer \in ServerAnswers,
                            k \in 0..MaxDevices :
                            \E devices \in [1..k -> DeviceStates] :
                                lolcommits_upload(quiet, git, devices, answer)
    \/ calc = NoCalc /\ \E width \in ImageWidths, f \in StatValues, i \in StatValues,
                            d \in StatValues :
                                overlay_chyron(width, DiffStats(f, i, d))
    \/ calc = NoCalc /\ \E width \in BandWidths, height \in Heights, seed \in Seeds,
                            overlay_alpha \in Opacities, build \in Builds :
                                overlay_chyron_band(width, height, seed, overlay_alpha, build)
    \/ Return

SpecLib == InitLib /\ [][NextLib]_vars

NoLolcommitChunk(file) == ~\E k \in LolcommitKeys \cup {KeyDiff} : HasKey(file.chunks, k)

\* The name is three pieces joined by '-' and ends in ".png".
MatchesPattern(name) ==
    /\ EndsWith(name, PngSuffix)
    /\ \E i, j \in 1..(Len(name) - Len(PngSuffix)) :
          i < j /\ name[i] = "-" /\ name[j] = "-"

\* The piece of the name after its last '-', without ".png".
LastPiece(name) ==
    LET stem == SubSeq(name, 1, Len(name) - Len(PngSuffix))
        k == CHOOSE i \in DOMAIN stem :
                stem[i] = "-" /\ \A j \in (i + 1)..Len(stem) : stem[j] # "-"
    IN  SubSeq(stem, k + 1, Len(stem))

\* C13 (tolerant decoding): for a PNG without lolcommit chunks
\* parse_image_file gives Some(metadata) made from the file name when the
\* name has the three pieces of the pattern (the revision being the last
\* piece, the fields the name does not hold being empty or 0), and None when
\* it has not; and get_image_list leaves the files that gave None out.
C13_TolerantDecoding ==
    /\ (calc.fn = "parse_image_file" /\ calc.file.ok /\ NoLolcommitChunk(calc.file))
          => IF MatchesPattern(calc.name)
             THEN /\ calc.out.some
                  /\ calc.out.md.sha = LastPiece(calc.name)
                  /\ calc.out.md.message = NoString
                  /\ calc.out.md.scope = NoString
                  /\ calc.out.md.files_changed = 0
             ELSE calc.out = NoCommit
    /\ calc.fn = "get_image_list"
          => /\ \A i \in DOMAIN calc.out :
                  \E j \in DOMAIN calc.entries :
                      /\ calc.entries[j].name = calc.out[i].name
                      /\ \/ ~NoLolcommitChunk(calc.entries[j].file)
                         \/ MatchesPattern(calc.out[i].name)
             /\ \A j \in DOMAIN calc.entries :
                  (NoLolcommitChunk(calc.entries[j].file)
                      /\ ~MatchesPattern(calc.entries[j].name))
                  => \A i \in DOMAIN calc.out : calc.out[i].name # calc.entries[j].name

\* C13 witness: a PNG whose only text chunk is another program's and whose
\* name has one dash gave None.
C13_Witness ==
    /\ calc.fn = "parse_image_file"
    /\ calc.file = ForeignChunk
    /\ calc.name = <<"a", "-", "b">> \o PngSuffix
    /\ calc.out = NoCommit

\* C14 (fallback fields), as claimed: a file without chunks named
\* {repo}-{YYYYMMDD}-{HHMMSS}-{revision}.png gives the repository name
\* {repo}, the revision {revision} and the timestamp "YYYY-MM-DD HH:MM:SS".
C14_FallbackFields ==
    (calc.fn = "parse_image_file" /\ calc.file = NoChunks)
    => \A repo \in LibRepos, t \in Days, rev \in LibRevs :
          calc.name = FileName(repo, StampOf(t), rev)
          => /\ calc.out.some
             /\ calc.out.md.repo_name = repo
             /\ calc.out.md.sha = rev
             /\ calc.out.md.timestamp = PrettyOf(t)

\* The day an image of the listing was taken: the day of its embedded
\* timestamp or, for a legacy artifact, of the stamp in its name.
DayOf(img) ==
    CHOOSE t \in Days :
        \E repo \in LibRepos, rev \in Revisions : img.name = FileName(repo, StampOf(t), rev)

\* C19 (listing order), as claimed: of two consecutive images of the
\* listing the first is not older than the second.
C19_NewestFirst ==
    calc.fn = "get_image_list"
    => \A i \in 1..(Len(calc.out) - 1) : DayOf(calc.out[i]) >= DayOf(calc.out[i + 1])


\* A type or scope: letters only, at least one.
IsWord(s) == Len(s) >= 1 /\ \A i \in DOMAIN s : s[i] = "a"

\* A text that does not begin or end with white space.
IsText(s) == Len(s) = 0 \/ (~IsSpace(s[1]) /\ ~IsSpace(s[Len(s)]))

\* C15 (conventional commits): "type(scope): text" gives type, scope and
\* text; "type: text" gives type, the empty scope and text; a message
\* without a colon gives "commit", the empty scope and the message itself.
C15_ConventionalCommit ==
    calc.fn = "parse_commit" =>
        LET m == calc.message
            n == Len(m)
        IN  /\ \A i, j \in 1..n :
                  ( /\ i < j /\ j + 2 <= n
                    /\ IsWord(SubSeq(m, 1, i - 1)) /\ m[i] = "("
                    /\ IsWord(SubSeq(m, i + 1, j - 1)) /\ m[j] = ")"
                    /\ m[j + 1] = ":" /\ m[j + 2] = " "
                    /\ IsText(SubSeq(m, j + 3, n)) )
                  => /\ calc.commit_type = SubSeq(m, 1, i - 1)
                     /\ calc.scope = [panic |-> FALSE, text |-> SubSeq(m, i + 1, j - 1)]
                     /\ calc.stripped = SubSeq(m, j + 3, n)
            /\ \A i \in 1..n :
                  ( /\ i + 1 <= n
                    /\ IsWord(SubSeq(m, 1, i - 1)) /\ m[i] = ":" /\ m[i + 1] = " "
                    /\ IsText(SubSeq(m, i + 2, n)) )
                  => /\ calc.commit_type = SubSeq(m, 1, i - 1)
                     /\ calc.scope = [panic |-> FALSE, text |-> NoString]
                     /\ calc.stripped = SubSeq(m, i + 2, n)
            /\ (\A i \in 1..n : m[i] # ":")
                  => /\ calc.commit_type = Commit
                     /\ calc.scope = [panic |-> FALSE, text |-> NoString]
                     /\ calc.stripped = m

\* C15 witness: "a(a): a" was parsed into type "a", scope "a", text "a".
C15_Witness ==
    /\ calc.fn = "parse_commit"
    /\ calc.message = <<"a", "(", "a", ")", ":", " ", "a">>
    /\ calc.commit_type = <<"a">>
    /\ calc.scope.text = <<"a">>
    /\ calc.stripped = <<"a">>

(* ------------------------------- C16 ----------------------------------- *)

\* A number of tenths written with one decimal place.
Tenths(d) == to_string(d \div 10) \o <<".">> \o << Digit(d % 10) >>

Distance(a, b) == IF a >= b THEN a - b ELSE b - a

\* C16: format_stat_number gives the plain decimal string for n <= 999; for
\* 1000 <= n < 1,000,000 the thousands with one decimal place and the suffix
\* k, the tenth being the one nearest to n / 1000 (either one at a tie); for
\* n >= 1,000,000 the millions with one decimal place and the suffix M, the
\* tenth being one of the two next to n / 1,000,000 and the nearest one
\* wherever f32 holds n exactly; 42 gives "42", 1234 gives "1.2k" and
\* 1567890 gives "1.6M".
C16_StatFormatting ==
    calc.fn = "format_stat_number" =>
        LET n == calc.n
            out == calc.out
        IN  /\ n <= 999 => out = to_string(n)
            /\ (1000 <= n /\ n < 1000000) =>
                   \E d \in {n \div 100, n \div 100 + 1} :
                       /\ out = Tenths(d) \o <<"k">>
                       /\ Distance(100 * d, n) <= 50
            /\ n >= 1000000 =>
                   \E d \in {n \div 100000, n \div 100000 + 1} :
                       /\ out = Tenths(d) \o <<"M">>
                       /\ n < Pow2(24) => Distance(100000 * d, n) <= 50000
            /\ n = 42 => out = <<"4", "2">>
            /\ n = 1234 => out = <<"1", ".", "2", "k">>
            /\ n = 1567890 => out = <<"1", ".", "6", "M">>

C16_Witness ==
    /\ calc.fn = "format_stat_number"
    /\ calc.n = 1567890
    /\ calc.out = <<"1", ".", "6", "M">>

(* ------------------------------- C17 ----------------------------------- *)

StatOf(stats, segment) ==
    CASE segment = "files" -> stats.files_changed
      [] segment = "insertions" -> stats.insertions
      [] segment = "deletions" -> stats.deletions

\* Left to right: files, insertions, deletions.
Rank(segment) ==
    CASE segment = "files" -> 1 [] segment = "insertions" -> 2
      [] segment = "deletions" -> 3

RECURSIVE SumWidths(_, _)
SumWidths(drawn, gap) ==
    IF drawn = <<>> THEN 0
    ELSE text_width(Head(drawn).text) + gap + SumWidths(Tail(drawn), gap)

\* C17: each of the three stats segments is drawn if and only if its value
\* is greater than 0 (the files in parentheses, the insertions after +, the
\* deletions after -); the drawn segments go left to right in the order
\* files, insertions, deletions; and the computed width holds nothing for a
\* segment that is not drawn: it lies between the widths of the drawn
\* segments and those widths with one gap each.
C17_OmitOnZero ==
    calc.fn = "overlay_chyron" =>
        LET drawn == calc.drawn
            stats == calc.stats
        IN  /\ \A segment \in {"files", "insertions", "deletions"} :
                   (\E k \in DOMAIN drawn : drawn[k].segment = segment)
                       <=> StatOf(stats, segment) > 0
            /\ \A k \in DOMAIN drawn :
                   LET number == format_stat_number(StatOf(stats, drawn[k].segment))
                   IN  drawn[k].text =
                           CASE drawn[k].segment = "files" -> <<"(">> \o number \o <<")">>
                             [] drawn[k].segment = "insertions" -> <<"+">> \o number
                             [] drawn[k].segment = "deletions" -> <<"-">> \o number
            /\ \A k, l \in DOMAIN drawn :
                   k < l => /\ Rank(drawn[k].segment) < Rank(drawn[l].segment)
                            /\ drawn[k].x + text_width(drawn[k].text) <= drawn[l].x
            /\ SumWidths(drawn, 0) <= calc.total_width
            /\ calc.total_width <= SumWidths(drawn, SmallGap)

C17_Witness ==
    /\ calc.fn = "overlay_chyron"
    /\ calc.stats.files_changed > 0
    /\ calc.stats.insertions = 0
    /\ calc.stats.deletions > 0
    /\ Len(calc.drawn) = 2

(* ------------------------------- C18 ----------------------------------- *)

\* C18: with at least one stat not zero, the computed width is the extent of
\* the drawn segments: the right edge of the last drawn segment is RightMargin
\* pixels from the image's right edge; with all three zero the revision is
\* placed DefaultOffset pixels from the right edge.
C18_RightAligned ==
    calc.fn = "overlay_chyron" =>
        LET drawn == calc.drawn
            last == drawn[Len(drawn)]
        IN  IF is_empty(calc.stats) THEN calc.sha_x = calc.width - DefaultOffset
            ELSE /\ drawn # <<>>
                 /\ last.x + text_width(last.text) = calc.width - RightMargin
                 /\ last.x + text_width(last.text) - calc.sha_x = calc.total_width

(* ----------------- image_processor: replace_background ----------------- *)

\* Mask weights are counted in sixteenths, which f32 holds exactly: 16 is
\* the weight 1.0.
WeightUnit == 16

\* weight > 0.1
AboveThreshold_Any(weight) == weight > 0
AboveThreshold(weight) == 10 * weight > WeightUnit

\* The mask values tried: 0 and 1/16 (neither above 0.1), and 1.
Weights == {0, 1, 16}

\* Pixels are numbered row by row from 1: pixel idx + 1 is idx = y * width + x.
XOf(i, width) == (i - 1) % width
YOf(i, width) == (i - 1) \div width

\* One channel of the camera image and of the background image.
Foreground(i) == (37 * i) % 256
Background(i) == 255 - ((11 * i) % 256)

\* sum_x, sum_y and total_weight after the loop over the first i pixels.
RECURSIVE CenterOfMass(_, _, _)
CenterOfMass(mask_values, width, i) ==
    IF i = 0 THEN [sum_x |-> 0, sum_y |-> 0, total_weight |-> 0]
    ELSE LET before == CenterOfMass(mask_values, width, i - 1)
             weight == mask_values[i]
         IN  IF AboveThreshold(weight)
             THEN [sum_x |-> before.sum_x + XOf(i, width) * weight,
                   sum_y |-> before.sum_y + YOf(i, width) * weight,
                   total_weight |-> before.total_weight + weight]
             ELSE before

\* (num / den) as i32 for den > 0: the fraction is cut towards zero.
Truncate(num, den) == IF num >= 0 THEN num \div den ELSE -((-num) \div den)

\* (size / 2.0 - sum / total_weight) as i32, the person's centre being the
\* image's centre when total_weight is 0.
Offset(size, sum, total_weight) ==
    IF total_weight > 0 THEN Truncate(size * total_weight - 2 * sum, 2 * total_weight)
    ELSE 0

\* (fg * alpha + bg * (1.0 - alpha)) as u8
Blend(fg, alpha, bg) == (fg * alpha + bg * (WeightUnit - alpha)) \div WeightUnit

\* The compositing with the mask weight taken at the destination.
Composite_MaskAtDest(mask_values, width, height, offset_x, offset_y, dest) ==
    LET src_x == XOf(dest, width) - offset_x
        src_y == YOf(dest, width) - offset_y
        src == src_y * width + src_x + 1
    IN  IF src_x >= 0 /\ src_x < width /\ src_y >= 0 /\ src_y < height
        THEN [from |-> src,
              value |-> Blend(Foreground(src), mask_values[dest], Background(dest))]
        ELSE [from |-> 0, value |-> Background(dest)]

\* The result pixel at dest: which pixel of the camera image and of the mask
\* it is made from (0 for none: background only), and its value.
Composite(mask_values, width, height, offset_x, offset_y, dest) ==
    LET src_x == XOf(dest, width) - offset_x
        src_y == YOf(dest, width) - offset_y
        src == src_y * width + src_x + 1
    IN  IF src_x >= 0 /\ src_x < width /\ src_y >= 0 /\ src_y < height
        THEN [from |-> src,
              value |-> Blend(Foreground(src), mask_values[src], Background(dest))]
        ELSE [from |-> 0, value |-> Background(dest)]

replace_background(width, height, mask_values) ==
    /\ calc = NoCalc
    /\ LET center == CenterOfMass(mask_values, width, width * height)
           offset_x == Offset(width, center.sum_x, center.total_weight)
           offset_y == Offset(height, center.sum_y, center.total_weight)
       IN  calc' = [fn |-> "replace_background", width |-> width, height |-> height,
                    mask_values |-> mask_values,
                    offset_x |-> offset_x, offset_y |-> offset_y,
                    result_data |->
                        [dest \in 1..(width * height) |->
                            Composite(mask_values, width, height,
                                      offset_x, offset_y, dest)]]
    /\ UNCHANGED <<server, model, prov>>

NextImage ==
    \/ calc = NoCalc /\ \E width \in 1..MaxWidth, height \in 1..MaxHeight :
                            /\ width * height <= MaxPixels
                            /\ \E mask_values \in [1..(width * height) -> Weights] :
                                replace_background(width, height, mask_values)
    \/ Return

SpecImage == InitLib /\ [][NextImage]_vars

(* ------------------------------- C20 ----------------------------------- *)

\* A mask value above 0.1, in sixteenths.
Exceeds(weight) == 10 * weight > 16

RECURSIVE WeightedSum(_, _, _)
WeightedSum(mask_values, coordinate, i) ==
    IF i = 0 THEN 0
    ELSE WeightedSum(mask_values, coordinate, i - 1)
         + (IF Exceeds(mask_values[i]) THEN coordinate[i] * mask_values[i] ELSE 0)

NoPerson == \A i \in DOMAIN calc.mask_values : ~Exceeds(calc.mask_values[i])

\* The centroid of the pixels above the threshold, weighted by the mask, is
\* (width / 2, height / 2).
CentroidAtCentre ==
    LET pixels == DOMAIN calc.mask_values
        n == calc.width * calc.height
        total == WeightedSum(calc.mask_values, [i \in pixels |-> 1], n)
        sum_x == WeightedSum(calc.mask_values,
                             [i \in pixels |-> (i - 1) % calc.width], n)
        sum_y == WeightedSum(calc.mask_values,
                             [i \in pixels |-> (i - 1) \div calc.width], n)
    IN  /\ total > 0
        /\ 2 * sum_x = calc.width * total
        /\ 2 * sum_y = calc.height * total

Unshifted ==
    /\ calc.offset_x = 0
    /\ calc.offset_y = 0
    /\ \A dest \in DOMAIN calc.result_data :
           /\ calc.result_data[dest].from = dest
           /\ calc.result_data[dest].value =
                  (Foreground(dest) * calc.mask_values[dest]
                   + Background(dest) * (16 - calc.mask_values[dest])) \div 16

\* C20: when no mask pixel is above the threshold 0.1, or when the centroid
\* of the pixels above it, weighted by the mask, is the image's centre, the
\* offset is (0, 0) and every result pixel (x, y) is blended from the camera
\* pixel and the mask weight at the same (x, y).
C20_Centering ==
    calc.fn = "replace_background" => ((NoPerson \/ CentroidAtCentre) => Unshifted)

C20_Witness ==
    /\ calc.fn = "replace_background"
    /\ CentroidAtCentre
    /\ \E i \in DOMAIN calc.mask_values : ~Exceeds(calc.mask_values[i])
    /\ Unshifted

(* ------------------------------- C21 ----------------------------------- *)

\* C21: for every result pixel (x, y) the source coordinate is
\* (x - offset_x, y - offset_y); outside the frame the result is the
\* background pixel at (x, y) as it is; inside, the result is made of the
\* frame pixel and the mask weight at the source coordinate and of the
\* background pixel at (x, y); the result has the frame's width times height
\* pixels and every pixel read lies in the frame.
C21_Blending ==
    calc.fn = "replace_background" =>
        LET n == calc.width * calc.height
        IN  /\ DOMAIN calc.result_data = 1..n
            /\ \A y \in 0..(calc.height - 1), x \in 0..(calc.width - 1) :
                   LET dest == y * calc.width + x + 1
                       sx == x - calc.offset_x
                       sy == y - calc.offset_y
                       source == sy * calc.width + sx + 1
                       pixel == calc.result_data[dest]
                   IN  IF sx \in 0..(calc.width - 1) /\ sy \in 0..(calc.height - 1)
                       THEN /\ pixel.from = source
                            /\ source \in 1..n
                            /\ pixel.value =
                                   (Foreground(source) * calc.mask_values[source]
                                    + Background(dest) * (16 - calc.mask_values[source]))
                                   \div 16
                       ELSE /\ pixel.from = 0
                            /\ pixel.value = Background(dest)

C21_Witness ==
    /\ calc.fn = "replace_background"
    /\ calc.offset_x < 0
    /\ calc.offset_y > 0
    /\ \E dest \in DOMAIN calc.result_data : calc.result_data[dest].from = 0
    /\ \E dest \in DOMAIN calc.result_data :
           /\ calc.result_data[dest].from \notin {0, dest}
           /\ calc.mask_values[calc.result_data[dest].from] # calc.mask_values[dest]

(* ------------------- segmentation: the model file ---------------------- *)

MODEL_MD5 == "60024c5c889badc19c04ad937298a77b"

\* bytes.len() < 1024 is too small.
MinModelBytes == 1024

\* The length of the model, counted in the model's units of MinModelBytes.
ModelBytes == 4 * MinModelBytes

\* What the server of MODEL_URL may answer: the model, or something else of
\* some length; with a status of success or not.
Responses ==
    { [status |-> st, len |-> ModelBytes, md5 |-> MODEL_MD5] : st \in {200, 404} }
    \cup { [status |-> st, len |-> l, md5 |-> "d41d8cd98f00b204e9800998ecf8427e"] :
               st \in {200, 500}, l \in {0, MinModelBytes - 1, MinModelBytes, ModelBytes} }

\* The checks of download_model on a response whose body has been read, with
\* the checksum left out.
Validate_NoChecksum(response) ==
    IF ~is_success(response.status) THEN "status"
    ELSE IF response.len < MinModelBytes THEN "size"
    ELSE "ok"

\* The checks of download_model on a response whose body has been read.
Validate(response) ==
    IF ~is_success(response.status) THEN "status"
    ELSE IF response.len < MinModelBytes THEN "size"
    ELSE IF response.md5 # MODEL_MD5 THEN "checksum"
    ELSE "ok"

\* get_model_path up to model_path.exists(): the path is returned if a file
\* is there (result: the file as it is then), else download_model is called.
get_model_path(p) ==
    /\ prov[p].pc = "idle"
    /\ prov[p].attempts < MaxAttempts
    /\ prov' = [prov EXCEPT ![p] =
                   [NoCall EXCEPT !.attempts = prov[p].attempts + 1,
                                  !.pc = IF model.exists THEN "returned" ELSE "download",
                                  !.result = model]]
    /\ UNCHANGED <<server, calc, model>>

\* download_model up to create_dir_all: the request, the status, the body
\* and the two checks of it; each may fail, and the call then returns Err.
download_model(p) ==
    /\ prov[p].pc = "download"
    /\ \/ \E reason \in {"network", "read", "mkdir"} :
              prov' = [prov EXCEPT ![p].pc = "error", ![p].reason = reason]
       \/ \E response \in Responses :
              prov' = [prov EXCEPT
                          ![p].response = response,
                          ![p].reason = Validate(response),
                          ![p].pc = IF Validate(response) = "ok" THEN "write"
                                    ELSE "error"]
    /\ UNCHANGED <<server, calc, model>>

\* fs::write opens the file at the model path, creating or truncating it.
CreateFile(p) ==
    /\ prov[p].pc = "write"
    /\ model' = [exists |-> TRUE, written |-> 0, len |-> prov[p].response.len,
                 md5 |-> prov[p].response.md5, by |-> p]
    /\ prov' = [prov EXCEPT ![p].pc = "writing"]
    /\ UNCHANGED <<server, calc>>

\* fs::write hands over the next piece of the body.
WriteData(p) ==
    /\ prov[p].pc = "writing"
    /\ prov[p].offset < prov[p].response.len
    /\ LET piece == (prov[p].response.len + MaxChunks - 1) \div MaxChunks
           offset == IF prov[p].offset + piece > prov[p].response.len
                     THEN prov[p].response.len ELSE prov[p].offset + piece
       IN  /\ prov' = [prov EXCEPT ![p].offset = offset]
           /\ model' = [model EXCEPT
                           !.written = IF offset > model.written THEN offset
                                       ELSE model.written]
    /\ UNCHANGED <<server, calc>>

\* fs::write returns Ok: download_model and get_model_path return Ok.
WriteDone(p) ==
    /\ prov[p].pc = "writing"
    /\ prov[p].offset = prov[p].response.len
    /\ prov' = [prov EXCEPT ![p].pc = "returned", ![p].result = model]
    /\ UNCHANGED <<server, calc, model>>

\* fs::write fails, before the file is opened or with a part of the body
\* written: download_model returns Err and the file stays as it is.
WriteFails(p) ==
    /\ prov[p].pc \in {"write", "writing"}
    /\ prov[p].offset < prov[p].response.len
    /\ prov' = [prov EXCEPT ![p].pc = "error", ![p].reason = "write"]
    /\ UNCHANGED <<server, calc, model>>

\* The caller goes on after Ok or Err, and may call again for a later image.
Resume(p) ==
    /\ prov[p].pc \in {"returned", "error"}
    /\ prov' = [prov EXCEPT ![p].pc = "idle"]
    /\ UNCHANGED <<server, calc, model>>

\* The process is stopped: its tasks are gone, the file stays.
Interrupt ==
    /\ \E p \in Callers : prov[p].pc \notin {"idle", "returned", "error"}
    /\ prov' = [p \in Callers |-> [prov[p] EXCEPT !.pc = "idle"]]
    /\ UNCHANGED <<server, calc, model>>

NextModel ==
    \/ \E p \in Callers : get_model_path(p)
    \/ \E p \in Callers : download_model(p)
    \/ \E p \in Callers : CreateFile(p)
    \/ \E p \in Callers : WriteData(p)
    \/ \E p \in Callers : WriteDone(p)
    \/ \E p \in Callers : WriteFails(p)
    \/ \E p \in Callers : Resume(p)
    \/ Interrupt

SpecModel == InitLib /\ [][NextModel]_vars

(* ------------------------------- C22 ----------------------------------- *)

\* The file at the model path is the whole body of a response that passed.
PassesChecks(response) ==
    /\ response.status \in 200..299
    /\ response.len >= 1024
    /\ response.md5 = "60024c5c889badc19c04ad937298a77b"

\* C22: download_model writes to the model path only with a response whose
\* status is a success, whose body has at least 1024 bytes and whose MD5 is
\* the known checksum; when one of the three checks fails the call returns
\* an error without having written, so that no file of this call is at the
\* model path.
C22_ValidatedBeforeWrite ==
    [][\A p \in Callers :
          /\ (model' # model /\ prov'[p] # prov[p]) => PassesChecks(prov[p].response)
          /\ (prov[p].pc = "download" /\ prov'[p].pc # "download"
              /\ ~PassesChecks(prov'[p].response) /\ prov'[p].response # NoResponse)
                 => /\ prov'[p].pc = "error"
                    /\ prov'[p].reason \in {"status", "size", "checksum"}
                    /\ model' = model
                    /\ model.exists => model.by # p]_vars

C22_Witness ==
    \E p, q \in Callers :
        /\ prov[p].pc = "error"
        /\ prov[p].reason = "checksum"
        /\ prov[p].response.status = 200
        /\ prov[p].response.len >= 1024
        /\ prov[q].pc = "returned"
        /\ prov[q].response # NoResponse
        /\ model.exists
        /\ model.by = q

(* ------------------------------- C23 ----------------------------------- *)

Complete(file) ==
    /\ file.exists
    /\ file.written = file.len
    /\ file.len >= 1024
    /\ file.md5 = "60024c5c889badc19c04ad937298a77b"

\* C23: in every state a file that exists at the model path is a complete
\* model with the known checksum, and every path get_model_path returns is
\* the path of such a file.
C23_NoPartialModel ==
    /\ model.exists => Complete(model)
    /\ \A p \in Callers : prov[p].pc = "returned" => Complete(prov[p].result)

(* ------------------------------- C24 ----------------------------------- *)

\* C24: for every list of camera devices tried in order: when no device
\* captures and a device is busy, the client exits with an error, or with
\* code 0 if --quiet is passed; when a device captures and the server cannot
\* be reached or answers with a 4xx or 5xx status, the client exits with an
\* error; when a device captures and the server answers with a 2xx status,
\* the client exits with code 0.
C24_ClientOutcome ==
    (calc.fn = "lolcommits_upload" /\ calc.git) =>
        LET devices == calc.devices
            captured == \E k \in DOMAIN devices : devices[k] = "works"
            inUse == \E k \in DOMAIN devices : devices[k] = "busy"
        IN  /\ (~captured /\ inUse) => (calc.exit = 0 <=> calc.quiet)
            /\ (captured /\ ~calc.answer.connected) => calc.exit # 0
            /\ (captured /\ calc.answer.connected /\ calc.answer.status \in 400..599)
                   => calc.exit # 0
            /\ (captured /\ calc.answer.connected /\ calc.answer.status \in 200..299)
                   => calc.exit = 0

(* --------------- the commit message on its way to the chyron ----------- *)

\* capture::capture_lolcommit: the UploadMetadata built from the commit
\* message (the fields that come from the message).
UploadMetadataOf(message) ==
    [message |-> message,
     commit_type |-> parse_commit_type(message),
     scope |-> parse_commit_scope(FirstLine(message)).text]

\* server::process_image_async: the CommitMetadata built from the upload.
CommitMetadataOf(metadata) ==
    [message |-> metadata.message, commit_type |-> metadata.commit_type,
     scope |-> metadata.scope]

\* image_processor::overlay_chyron: the text drawn as the title line.
TitleLine(metadata) == metadata.message

\* A commit is captured by the upload client, uploaded, and the chyron is
\* drawn by the server (parse_commit_scope may panic in the client, and then
\* nothing is uploaded).
chyron_title(message) ==
    /\ calc = NoCalc
    /\ calc' = IF parse_commit_scope(FirstLine(message)).panic
               THEN [fn |-> "chyron_title", message |-> message, drawn |-> FALSE,
                     title |-> NoString]
               ELSE [fn |-> "chyron_title", message |-> message, drawn |-> TRUE,
                     title |-> TitleLine(CommitMetadataOf(UploadMetadataOf(message)))]
    /\ UNCHANGED <<server, model, prov>>

NextTitle ==
    \/ calc = NoCalc /\ \E message \in Messages : chyron_title(message)
    \/ Return

SpecTitle == InitLib /\ [][NextTitle]_vars

(* ------------------------------- C27 ----------------------------------- *)

\* C27: for every commit message "type(scope): text" captured by the upload
\* client, the title line drawn on the chyron is "text".
C27_TitleStripped ==
    calc.fn = "chyron_title" =>
        LET m == calc.message
            n == Len(m)
        IN  \A i, j \in 1..n :
                ( /\ i < j /\ j + 2 <= n
                  /\ IsWord(SubSeq(m, 1, i - 1)) /\ m[i] = "("
                  /\ IsWord(SubSeq(m, i + 1, j - 1)) /\ m[j] = ")"
                  /\ m[j + 1] = ":" /\ m[j + 2] = " "
                  /\ IsText(SubSeq(m, j + 3, n)) )
                => /\ calc.drawn
                   /\ calc.title = SubSeq(m, j + 3, n)

(* ------------------------------- C25 ----------------------------------- *)

\* The uploads that carry revision r.
UploadsOf(r) == {u \in Uploads : meta[u].some /\ meta[u].revision = r}

\* C25: while the process runs without a stop, of the uploads that carry one
\* revision, all with force = false, at most one persists an artifact and at
\* most one sends a broadcast (an upload gets past the membership check only
\* if the cache did not hold the revision).
C25_OncePerRevision ==
    crashes = 0 =>
        \A r \in Revisions :
            (\A u \in UploadsOf(r) : ~meta[u].force)
                => /\ Cardinality({u \in UploadsOf(r) : pc[u] \in Renamed}) <= 1
                   /\ Cardinality({u \in UploadsOf(r) : sentBy[u] > 0}) <= 1

(* ------------------------------- C26 ----------------------------------- *)

\* C26: a file that is listed under a final artifact name stays there with
\* the content it has, whatever upload is processed next.
C26_NeverMutated ==
    [][\A n \in ListedNames(fs) :
          /\ n \in DOMAIN fs'
          /\ fs'[n] = fs[n]]_vars

(* ------------------------------- C28 ----------------------------------- *)

Ended == {"skipped", "failed", "done"}

\* The steps of a task after the membership check, up to the request of the
\* write lock.
PastCheck == {"process", "mkpath", "write", "persist", "write_wait"}

\* C28: in a process that keeps running, every spawned task ends as
\* skipped, failed or done; a task that processes or asks for the write lock
\* holds no read guard, and a task that waits for the write lock gets it.
C28_Terminates ==
    /\ [](\A u \in Uploads : pc[u] \in PastCheck => u \notin rwlock.readers)
    /\ \A u \in Uploads : (pc[u] = "spawned") ~> (pc[u] \in Ended)
    /\ \A u \in Uploads : (pc[u] = "write_wait") ~> (pc[u] = "write_held")

\* A task is parked on the write lock, off its worker thread, while the
\* other task holds a read guard.
C28_Witness ==
    \E u, v \in Uploads :
        /\ u # v
        /\ pc[u] = "write_wait"
        /\ u \notin busy
        /\ pc[v] = "read_held"
        /\ rwlock.readers = {v}

(* ------------------------------- C29 ----------------------------------- *)

\* C29: for 1000 <= n < 1,000,000 the number before the "k" is below 1000
\* (at most three digits before the point, so at most six characters in
\* all), and for n >= 1,000,000 the string ends in "M".
C29_NoCarryToThousand ==
    calc.fn = "format_stat_number" =>
        /\ (calc.n >= 1000 /\ calc.n < 1000000)
              => /\ calc.out[Len(calc.out)] = "k"
                 /\ Len(calc.out) <= 6
                 /\ calc.out # <<"1", "0", "0", "0", ".", "0", "k">>
        /\ calc.n >= 1000000 => calc.out[Len(calc.out)] = "M"

(* ------------------------------- C30 ----------------------------------- *)

\* C30: for every height the subtraction does not overflow and the band
\* starts at a row from 0 to height; only pixels of rows from the start of
\* the band on are changed; every pixel keeps its alpha.
C30_BandWithinImage ==
    calc.fn = "overlay_chyron_band" =>
        /\ ~calc.panicked
        /\ calc.y_start.hi = 0
        /\ calc.y_start.lo <= calc.height
        /\ \A y \in 0..(calc.height - 1), x \in 0..(calc.width - 1) :
              /\ calc.out[y][x] # calc.image[y][x] => y >= calc.y_start.lo
              /\ calc.out[y][x][4] = calc.image[y][x][4]

====
